---- MODULE Spec2Model ----
(***************************************************************************)
(* A model of the catalog generator's orchestration core:                  *)
(*   - IDGenerator            (src/src/utils/id_generator.py)              *)
(*   - NameValidator and the deduplicate_*_names functions                 *)
(*                            (src/src/utils/name_validator.py)            *)
(*   - ProductGenerator and ReviewGenerator, batch by batch                *)
(*                            (src/src/generators/*.py)                    *)
(* Three specifications share the variables:                               *)
(*   SpecIds    one IDGenerator instance and the calls made on it          *)
(*   SpecDedup  the deduplicate_*_names functions applied to an input list *)
(*   Spec       one generator stage (products or reviews) driven by the    *)
(*              responses of the generation capability                     *)
(***************************************************************************)
EXTENDS Integers, Sequences, FiniteSets, TLC

VARIABLES
    \* ---- IDGenerator (one instance)
    used_ids,       \* IDGenerator.used_ids
    issued,         \* history: how many times each identifier was returned
    last_ids,       \* the list returned by the last allocation call
    last_count,     \* the count argument of the last allocation call
    last_redraws,   \* draws rejected by the while loop in the last call
    n_calls,        \* allocation calls made so far
    id_error,       \* "none" or the exception the last call raised
    \* ---- two IDGenerator instances, one per generator object
    id_generators,  \* the used_ids of each instance
    handed,         \* history: [gen, type, id] of every identifier returned
    last_alloc,     \* history: the last call, [n, gen, type, before, ids, rejected]
    \* ---- one allocation call, draw by draw
    alloc,          \* [pc, prefix, count, ids, redraws] of the call under way
    \* ---- deduplicate_*_names applied to a list
    dd_kind,        \* "product", "brand" or "collection"
    dd_input,       \* the list of dictionaries handed to the function
    dd_result,      \* what the call did: [raised, out, fallbacks]
    dd_pc,          \* "call" before the call, "done" after it
    \* ---- one run of generate_products or generate_reviews
    cfg,            \* the arguments of the run and of the generator
    pc,             \* "loop", "await" (a request is out), "done", "aborted"
    products,       \* generate_products: products
    reviews,        \* generate_reviews: reviews
    product_reviews,\* _generate_product_reviews: product_reviews
    batch_idx,      \* generate_products: batch_idx
    prod_idx,       \* generate_reviews: position in products (from 1)
    batches,        \* _generate_product_reviews: the batches still to do
    call,           \* what the request under way named
    attempt,        \* _generate_batch_with_retry: attempt
    last_batch,     \* history: how the last batch ended
    exhausted,      \* history: batches that ended with every attempt failed
    returned,       \* the list the stage returned
    exc,            \* "none" or the exception that left the stage
    inflight,       \* history: requests out, batches started and finished
    passed,         \* history: payload elements that passed the schema so far
    requests,       \* history: [calls, settled] of the batch or entity under way
    \* ---- one run of generate_brands or generate_collections (with cfg, pc,
    \*      batch_idx for i, call, attempt, returned, exc and the histories)
    new_ids,        \* the identifiers generated before the loop
    brands,         \* generate_brands: brands
    collections,    \* generate_collections: collections
    requested_for,  \* history: [i, brand_id] of each collection asked for
    blank_names,    \* history: responses whose name was missing or blank
    \* ---- one run of main()
    env,            \* os.getenv("OPENAI_API_KEY") and whether docs/ holds the guide
    total_products, \* args.products
    run_pc,         \* "start", "returned" (main returned), "done", "aborted"
    pipeline,       \* whether CatalogPipeline(...) was built (output_dir made)
    plan,           \* the counts run() computed
    context_calls,  \* calls of get_brand_context made by run()
    brand_context,  \* "none" or "loaded"
    stage_trace,    \* the stages run() has entered, in order
    files,          \* the CSV files _export_to_csv has written
    run_exc,        \* "none" or the exception that left run()
    \* ---- one NameValidator
    validator,      \* the instance: [used_names, name_patterns]
    registered      \* history: the names handed to add_name, as written

idVars == <<used_ids, issued, last_ids, last_count, last_redraws, n_calls, id_error>>

ddVars == <<dd_kind, dd_input, dd_result, dd_pc>>

\* All of the run but used_ids of its generator's IDGenerator.
genVars == <<cfg, pc, products, reviews, product_reviews, batch_idx, prod_idx,
             batches, call, attempt, last_batch, exhausted, returned, exc, inflight,
             passed, requests>>

entVars == <<new_ids, brands, collections, requested_for, blank_names>>

idHistVars == <<issued, last_ids, last_count, last_redraws, n_calls, id_error>>

runVars == <<env, total_products, run_pc, pipeline, plan, context_calls,
             brand_context, stage_trace, files, run_exc>>

vars == <<used_ids, issued, last_ids, last_count, last_redraws, n_calls, id_error,
          dd_kind, dd_input, dd_result, dd_pc,
          cfg, pc, products, reviews, product_reviews, batch_idx, prod_idx,
          batches, call, attempt, last_batch, exhausted, returned, exc, inflight,
          passed, requests, new_ids, brands, collections, requested_for,
          blank_names,
          env, total_products, run_pc, pipeline, plan, context_calls,
          brand_context, stage_trace, files, run_exc,
          validator, registered,
          id_generators, handed, last_alloc, alloc>>

nameVars == <<validator, registered>>

pairVars == <<id_generators, handed, last_alloc>>

drawVars == <<alloc>>

\* ------------------------------------------------------------------ bounds

\* Size of the suffix space of one prefix (uuid4().hex[:8] has 16^8 values).
IdSpace == 2
\* Largest count argument of one allocation call in SpecIds.
MaxCount == 2
\* Most draws the while loop rejects within one allocation call.
MaxRedraws == 1
\* Allocation calls made on the instance in SpecIds.
MaxIdCalls == 2
\* Brands or collections one run of generate_brands / generate_collections
\* is asked for.
MaxEntities == 2
\* Allocation calls made on the two instances of SpecPair together.
MaxPairCalls == 3

\* ------------------------------------------------------------- identifiers

EntityTypes == {"brand", "collection", "product", "review"}

\* A mutant of MkId: the identifier is the bare suffix.
MkIdBare(prefix, suffix) == [p |-> "id", s |-> suffix]

\* f"{prefix}_{uuid.uuid4().hex[:8]}"
MkId(prefix, suffix) == [p |-> prefix, s |-> suffix]

AllIds == [p : EntityTypes, s : 1..IdSpace]

SeqsBetween(S, lo, hi) == UNION {[1..n -> S] : n \in lo..hi}

\* The draws uuid4 may deliver during one call that returns count identifiers.
DrawSeqs(count) == SeqsBetween(1..IdSpace, count, count + MaxRedraws)

\* A mutant of Collides: every draw is taken for used.
CollidesAlways(id, used) == TRUE

\* A mutant of Collides: the membership test of the while loop is dropped.
CollidesNever(id, used) == FALSE

\* `while brand_id in self.used_ids`
Collides(id, used) == id \in used

\* The loop of generate_<type>_ids, run on the sequence of draws uuid4
\* delivers.  done is FALSE when the draws end before count identifiers are
\* found (the call is still looping).
RECURSIVE GenerateIds(_, _, _, _, _)
GenerateIds(prefix, count, used, draws, ids) ==
    IF Len(ids) >= count
    THEN [ids |-> ids, used |-> used, rest |-> draws, done |-> TRUE]
    ELSE IF draws = <<>>
    THEN [ids |-> ids, used |-> used, rest |-> draws, done |-> FALSE]
    ELSE LET id == MkId(prefix, Head(draws))
         IN  IF Collides(id, used)
             THEN GenerateIds(prefix, count, used, Tail(draws), ids)
             ELSE GenerateIds(prefix, count, used \cup {id}, Tail(draws),
                              Append(ids, id))

\* One complete allocation call: the draws are consumed exactly.
Allocation(prefix, count, used, draws) ==
    GenerateIds(prefix, count, used, draws, <<>>)

Completes(r) == r.done /\ r.rest = <<>>

RECURSIVE CountIssued(_, _)
CountIssued(hist, ids) ==
    IF ids = <<>> THEN hist
    ELSE CountIssued([hist EXCEPT ![Head(ids)] = @ + 1], Tail(ids))

\* The effect of a call of generate_<prefix>_ids(count) on the instance.
GenerateTyped(prefix, count) ==
    /\ n_calls < MaxIdCalls
    /\ \E draws \in DrawSeqs(count) :
         LET r == Allocation(prefix, count, used_ids, draws)
         IN  /\ Completes(r)
             /\ used_ids' = r.used
             /\ last_ids' = r.ids
             /\ last_redraws' = Len(draws) - Len(r.ids)
             /\ issued' = CountIssued(issued, r.ids)
    /\ last_count' = count
    /\ n_calls' = n_calls + 1
    /\ id_error' = "none"

generate_brand_ids == \E count \in 0..MaxCount : GenerateTyped("brand", count)

generate_collection_ids == \E count \in 0..MaxCount : GenerateTyped("collection", count)

generate_product_ids == \E count \in 0..MaxCount : GenerateTyped("product", count)

generate_review_ids == \E count \in 0..MaxCount : GenerateTyped("review", count)

\* get_id_batch / reserve_ids: dispatch on the entity type, ValueError otherwise.
get_id_batch ==
    \E entity_type \in EntityTypes \cup {"other"}, count \in 0..MaxCount :
        IF entity_type \in EntityTypes
        THEN GenerateTyped(entity_type, count)
        ELSE /\ n_calls < MaxIdCalls
             /\ id_error' = "ValueError"
             /\ n_calls' = n_calls + 1
             /\ last_count' = count
             /\ last_ids' = <<>>
             /\ last_redraws' = 0
             /\ UNCHANGED <<used_ids, issued>>

\* ---- two instances: every generator object builds its own IDGenerator()

Instances == 1..2

\* A mutant of Consulted: the instances share one set.
ConsultedBoth(gen) == id_generators[1] \cup id_generators[2]

\* self.used_ids of the instance the call is made on.
Consulted(gen) == id_generators[gen]

\* The suffixes drawn in a call and not appended to the list it returned.
RECURSIVE RejectedDraws(_, _)
RejectedDraws(draws, ids) ==
    IF draws = <<>> THEN {}
    ELSE IF ids # <<>> /\ Head(ids).s = Head(draws)
         THEN RejectedDraws(Tail(draws), Tail(ids))
         ELSE {Head(draws)} \cup RejectedDraws(Tail(draws), ids)

\* A call of generate_<entity_type>_ids(count) on one of the two instances.
GenerateOn ==
    /\ last_alloc.n < MaxPairCalls
    /\ \E gen \in Instances, entity_type \in EntityTypes, count \in 0..MaxCount :
         \E draws \in DrawSeqs(count) :
            LET r == Allocation(entity_type, count, Consulted(gen), draws)
            IN  /\ Completes(r)
                /\ id_generators' =
                     [id_generators EXCEPT ![gen] = @ \cup {r.ids[i] : i \in DOMAIN r.ids}]
                /\ handed' = handed \cup
                     {[gen |-> gen, type |-> entity_type, id |-> r.ids[i]] :
                        i \in DOMAIN r.ids}
                /\ last_alloc' = [n |-> last_alloc.n + 1, gen |-> gen,
                                  type |-> entity_type,
                                  before |-> id_generators[gen], ids |-> r.ids,
                                  rejected |-> RejectedDraws(draws, r.ids)]

NoPair ==
    /\ id_generators = [gen \in Instances |-> {}]
    /\ handed = {}
    /\ last_alloc = [n |-> 0, gen |-> 1, type |-> "none", before |-> {},
                     ids |-> <<>>, rejected |-> {}]

\* ---- one call of generate_<prefix>_ids, one uuid4 draw at a time

NoDraws ==
    alloc = [pc |-> "idle", prefix |-> "none", count |-> 0, ids |-> <<>>, redraws |-> 0]

\* generate_<prefix>_ids(count) is entered: ids = [] and the for loop starts.
EnterGenerate ==
    /\ alloc.pc \in {"idle", "returned"}
    /\ \E prefix \in EntityTypes, count \in 0..MaxCount :
         alloc' = [pc |-> IF count = 0 THEN "returned" ELSE "while",
                   prefix |-> prefix, count |-> count, ids |-> <<>>, redraws |-> 0]
    /\ UNCHANGED used_ids

\* One draw of uuid4 and the test of the while loop on it: a used identifier
\* is drawn again, an unused one is appended and added to used_ids, and the
\* call returns with the count-th identifier.
Draw(suffix) ==
    /\ alloc.pc = "while"
    /\ LET id == MkId(alloc.prefix, suffix)
       IN  IF Collides(id, used_ids)
           THEN /\ alloc' = [alloc EXCEPT
                               !.redraws = IF @ < MaxRedraws THEN @ + 1 ELSE @]
                /\ UNCHANGED used_ids
           ELSE /\ used_ids' = used_ids \cup {id}
                /\ alloc' = [alloc EXCEPT
                               !.ids = Append(@, id),
                               !.pc = IF Len(alloc.ids) + 1 >= alloc.count
                                      THEN "returned" ELSE "while"]

\* The suffixes of a prefix that used_ids does not hold.
Unused(prefix) == {suffix \in 1..IdSpace : MkId(prefix, suffix) \notin used_ids}

\* ------------------------------------------------------------------- names

(***************************************************************************)
(* A name is a string, modelled as the sequence of its tokens: words and   *)
(* single spaces.  A word keeps its letters in lower case in t and its     *)
(* capitalisation in c (0: all lower case, 1: capitalised as written in    *)
(* the source lists, 2: upper case), so that str.lower() is not the        *)
(* identity.  The token "N)" that ends a numbered suffix keeps N in n.     *)
(***************************************************************************)
SP == [t |-> " ", c |-> 0, n |-> 0]

W(text) == [t |-> text, c |-> 1, n |-> 0]

NumTok(k) == [t |-> "#)", c |-> 0, n |-> k]

EmptyStr == <<>>

\* str.lower()
Lower(name) == [i \in 1..Len(name) |-> [name[i] EXCEPT !.c = 0]]

\* str.strip()
RECURSIVE LStrip(_)
LStrip(name) ==
    IF name # <<>> /\ Head(name) = SP THEN LStrip(Tail(name)) ELSE name

RECURSIVE RStrip(_)
RStrip(name) ==
    IF name # <<>> /\ name[Len(name)] = SP
    THEN RStrip(SubSeq(name, 1, Len(name) - 1))
    ELSE name

Strip(name) == RStrip(LStrip(name))

\* name.lower().strip()
Normalize(name) == Strip(Lower(name))

\* str.split()
Split(name) == SelectSeq(name, LAMBDA tok : tok # SP)

\* ' '.join(words)
RECURSIVE Join(_)
Join(words) ==
    IF words = <<>> THEN <<>>
    ELSE IF Len(words) = 1 THEN words
    ELSE <<Head(words), SP>> \o Join(Tail(words))

\* f"{a} {b}"
Fmt2(a, b) == a \o <<SP>> \o b

\* f"{a} {b} {c}"
Fmt3(a, b, c) == a \o <<SP>> \o b \o <<SP>> \o c

\* ---- NameValidator: [used_names, name_patterns]

NewValidator == [used_names |-> {}, name_patterns |-> <<>>]

\* NameValidator._extract_pattern: the first three, or two, words of the name
\* (recorded as the list of those words), otherwise the name itself.
extract_pattern(name) ==
    LET words == Split(name)
    IN  IF Len(words) >= 3 THEN SubSeq(words, 1, 3)
        ELSE IF Len(words) = 2 THEN words
        ELSE name

\* NameValidator._parse_name_components: components.get('item_type', '')
item_type(name) ==
    LET words == Split(name)
    IN  IF Len(words) >= 3 THEN Join(SubSeq(words, 3, Len(words))) ELSE EmptyStr

\* A mutant of is_unique: the name is looked up as written.
is_unique_exact(v, name) == name \notin v.used_names

\* NameValidator.is_unique
is_unique(v, name) == Normalize(name) \notin v.used_names

\* NameValidator.add_name (name_patterns is the list of patterns registered:
\* the count of a pattern is the number of its occurrences)
add_name(v, name) ==
    [used_names |-> v.used_names \cup {Normalize(name)},
     name_patterns |-> Append(v.name_patterns, extract_pattern(name))]

\* One strategy loop: append every unique candidate, stop at five suggestions.
RECURSIVE Collect(_, _, _)
Collect(v, cands, suggestions) ==
    IF cands = <<>> THEN suggestions
    ELSE IF is_unique(v, Head(cands))
    THEN LET s == Append(suggestions, Head(cands))
         IN  IF Len(s) >= 5 THEN s ELSE Collect(v, Tail(cands), s)
    ELSE Collect(v, Tail(cands), suggestions)

\* A later strategy runs only `if len(suggestions) < 5`.
Strategy(v, cands, suggestions) ==
    IF Len(suggestions) < 5 THEN Collect(v, cands, suggestions) ELSE suggestions

FirstFive(s) == SubSeq(s, 1, IF Len(s) < 5 THEN Len(s) ELSE 5)

Words(texts) == [i \in 1..Len(texts) |-> W(texts[i])]

\* f"{term} {base_name}" for every term of a list
Prefixed(terms, base_name) ==
    [i \in 1..Len(terms) |-> Fmt2(<<terms[i]>>, base_name)]

\* f"{color} {term} {item_type}" for every term of a list
Coloured(terms, color, base_name) ==
    [i \in 1..Len(terms) |-> Fmt3(color, <<terms[i]>>, item_type(base_name))]

ProductModifiers ==
    Words(<<"classic", "modern", "premium", "essential", "signature",
            "heritage", "contemporary", "refined", "elegant", "casual">>)

StyleDescriptors ==
    Words(<<"relaxed", "slim", "tailored", "oversized", "fitted",
            "comfortable", "structured", "flexible", "adaptive">>)

ProductCategoryTerms(category) ==
    CASE category = "Everyday Apparel" -> Words(<<"daily", "versatile", "essential">>)
      [] category = "Work & Evening Wear" -> Words(<<"professional", "polished", "sophisticated">>)
      [] category = "Active & Outdoor Layers" -> Words(<<"performance", "active", "outdoor">>)
      [] category = "Everyday Outerwear" -> Words(<<"layered", "protective", "comfortable">>)
      [] category = "Accessories" -> Words(<<"stylish", "functional", "versatile">>)
      [] category = "Footwear" -> Words(<<"comfortable", "durable", "stylish">>)
      [] OTHER -> Words(<<"classic">>)

GenderTerms(gender) ==
    CASE gender = "men" -> Words(<<"men's", "masculine", "gentleman's">>)
      [] gender = "women" -> Words(<<"women's", "feminine", "lady's">>)
      [] gender = "unisex" -> Words(<<"unisex", "universal", "gender-neutral">>)
      [] OTHER -> <<>>

\* The candidates of get_name_suggestions in the order the strategies try them.
ProductCandidates(base_name, category, gender, color) ==
    <<Prefixed(ProductModifiers, base_name),
      Coloured(StyleDescriptors, color, base_name),
      Coloured(ProductCategoryTerms(category), color, base_name),
      Prefixed(GenderTerms(gender), base_name)>>

\* A mutant of RunStrategies: the second strategy is tried before the first.
RunStrategiesSwapped(v, cs) ==
    LET s1 == Collect(v, cs[2], <<>>)
        s2 == Strategy(v, cs[1], s1)
        s3 == Strategy(v, cs[3], s2)
        s4 == IF Len(cs) >= 4 THEN Strategy(v, cs[4], s3) ELSE s3
    IN  FirstFive(s4)

\* The four (or three) strategies run in order over their candidate lists.
RunStrategies(v, cs) ==
    LET s1 == Collect(v, cs[1], <<>>)
        s2 == Strategy(v, cs[2], s1)
        s3 == Strategy(v, cs[3], s2)
        s4 == IF Len(cs) >= 4 THEN Strategy(v, cs[4], s3) ELSE s3
    IN  FirstFive(s4)

\* NameValidator.get_name_suggestions
get_name_suggestions(v, base_name, category, gender, color) ==
    RunStrategies(v, ProductCandidates(base_name, category, gender, color))

BrandModifiers ==
    Words(<<"artisan", "heritage", "modern", "eco", "sustainable",
            "natural", "organic", "handcrafted", "bespoke", "premium">>)

LocationTerms ==
    Words(<<"pacific", "coastal", "mountain", "valley", "riverside",
            "harbor", "meadow", "forest", "canyon", "summit">>)

NatureTerms ==
    Words(<<"wild", "natural", "earth", "sky", "ocean",
            "mountain", "river", "forest", "meadow", "valley">>)

BrandCandidates(base_name) ==
    <<Prefixed(BrandModifiers, base_name),
      Prefixed(LocationTerms, base_name),
      Prefixed(NatureTerms, base_name)>>

\* NameValidator.get_brand_name_suggestions
get_brand_name_suggestions(v, base_name) ==
    RunStrategies(v, BrandCandidates(base_name))

SeasonalModifiers(season) ==
    CASE season = "Spring" -> Words(<<"spring", "bloom", "renewal", "awakening">>)
      [] season = "Summer" -> Words(<<"summer", "solstice", "coastal", "breeze">>)
      [] season = "Fall" -> Words(<<"fall", "autumn", "harvest", "golden">>)
      [] season = "Winter" -> Words(<<"winter", "frost", "alpine", "cozy">>)
      [] season = "All-Season" -> Words(<<"year-round", "timeless", "versatile", "essential">>)
      [] OTHER -> Words(<<"classic">>)

CollectionCategoryTerms(category) ==
    CASE category = "Everyday" -> Words(<<"daily", "essential", "core", "basic">>)
      [] category = "Work" -> Words(<<"professional", "office", "business", "corporate">>)
      [] category = "Active" -> Words(<<"performance", "athletic", "sport", "dynamic">>)
      [] category = "Outdoor" -> Words(<<"adventure", "exploration", "wilderness", "trail">>)
      [] OTHER -> Words(<<"classic">>)

DescriptiveModifiers ==
    Words(<<"signature", "limited", "premium", "exclusive", "heritage",
            "modern", "contemporary", "classic", "refined", "elegant">>)

CollectionCandidates(base_name, season, category) ==
    <<Prefixed(SeasonalModifiers(season), base_name),
      Prefixed(CollectionCategoryTerms(category), base_name),
      Prefixed(DescriptiveModifiers, base_name)>>

\* NameValidator.get_collection_name_suggestions
get_collection_name_suggestions(v, base_name, season, category) ==
    RunStrategies(v, CollectionCandidates(base_name, season, category))

\* ---- deduplicate_*_names

\* product.get('colors') is a list (product.dict()), a '|'-joined string (a
\* CSV row) or missing.
NoColors == [kind |-> "none", items |-> <<>>]

ListColors(items) == [kind |-> "list", items |-> items]

StrColors(items) == [kind |-> "str", items |-> items]

\* `if product.get('colors')`
Truthy(colors) == colors.kind # "none" /\ colors.items # <<>>

\* product.get('colors', '').split('|'): a list has no split (AttributeError).
SplitRaises(colors) == Truthy(colors) /\ colors.kind = "list"

\* product.get('colors', '').split('|')[0] if product.get('colors') else ''
FirstColor(colors) == IF Truthy(colors) THEN <<colors.items[1]>> ELSE EmptyStr

EntityLabel(kind) ==
    CASE kind = "product" -> W("(style")
      [] kind = "brand" -> W("(brand")
      [] kind = "collection" -> W("(collection")

\* f"{original_name} ({Label} {k})"
Suffixed(kind, original_name, k) ==
    original_name \o <<SP, EntityLabel(kind), SP, NumTok(k)>>

\* f"{original_name} ({Label} {len(validator.used_names) + 1})"
FallbackName(kind, original_name, v) ==
    Suffixed(kind, original_name, Cardinality(v.used_names) + 1)

Suggestions(kind, v, e) ==
    CASE kind = "product" ->
           get_name_suggestions(v, e.name, e.category, e.gender, FirstColor(e.colors))
      [] kind = "brand" -> get_brand_name_suggestions(v, e.name)
      [] kind = "collection" ->
           get_collection_name_suggestions(v, e.name, e.season, e.category)

\* The loop of deduplicate_<kind>_names over the remaining entries.  The
\* result is what the call did: raised is "none" and out the returned list, or
\* raised names the exception that left the function; fallbacks lists the
\* names made by the numbered suffix.
RECURSIVE DedupLoop(_, _, _, _, _)
DedupLoop(kind, entries, v, out, fallbacks) ==
    IF entries = <<>>
    THEN [raised |-> "none", out |-> out, fallbacks |-> fallbacks]
    ELSE LET e == Head(entries)
             original_name == e.name
         IN  IF is_unique(v, original_name)
             THEN DedupLoop(kind, Tail(entries), add_name(v, original_name),
                            Append(out, e), fallbacks)
             ELSE IF kind = "product" /\ SplitRaises(e.colors)
             THEN [raised |-> "AttributeError", out |-> <<>>, fallbacks |-> fallbacks]
             ELSE LET suggestions == Suggestions(kind, v, e)
                      new_name == IF suggestions # <<>>
                                  THEN suggestions[1]
                                  ELSE FallbackName(kind, original_name, v)
                  IN  DedupLoop(kind, Tail(entries), add_name(v, new_name),
                                Append(out, [e EXCEPT !.name = new_name]),
                                IF suggestions # <<>> THEN fallbacks
                                ELSE Append(fallbacks, new_name))

\* A mutant of deduplicate_product_names: the list is returned as it came.
deduplicate_product_names_off(product_dicts) ==
    [raised |-> "none", out |-> product_dicts, fallbacks |-> <<>>]

\* A mutant of deduplicate_product_names: the entries after the first are
\* dropped.
deduplicate_product_names_drop(product_dicts) ==
    [raised |-> "none",
     out |-> IF product_dicts = <<>> THEN <<>> ELSE <<Head(product_dicts)>>,
     fallbacks |-> <<>>]

deduplicate_product_names(product_dicts) ==
    DedupLoop("product", product_dicts, NewValidator, <<>>, <<>>)

deduplicate_brand_names(brands_dict) ==
    DedupLoop("brand", brands_dict, NewValidator, <<>>, <<>>)

deduplicate_collection_names(collection_dicts) ==
    DedupLoop("collection", collection_dicts, NewValidator, <<>>, <<>>)

\* ---- the lists SpecDedup applies the functions to

\* Entries appended after the base name and its leading candidates.
MaxTail == 3

DedupKinds == {"product", "brand", "collection"}

BaseName == <<W("alpine"), SP, W("trail"), SP, W("jacket")>>

\* The base name written in upper case, and with surrounding blanks.
UpperName == [i \in 1..Len(BaseName) |-> [BaseName[i] EXCEPT !.c = IF @ = 0 THEN 0 ELSE 2]]

PaddedName == <<SP>> \o BaseName \o <<SP>>

Entry(name, attrs) ==
    [name |-> name, category |-> attrs.category, gender |-> attrs.gender,
     season |-> attrs.season, colors |-> attrs.colors]

PlainAttrs == [category |-> "", gender |-> "", season |-> "", colors |-> NoColors]

\* The attributes of the entries that repeat a name.
AttrChoices(kind) ==
    CASE kind = "product" ->
           {PlainAttrs,
            [PlainAttrs EXCEPT !.colors = ListColors(<<>>)],
            [PlainAttrs EXCEPT !.colors = ListColors(<<W("red")>>)],
            [PlainAttrs EXCEPT !.colors = StrColors(<<W("red"), W("blue")>>),
                               !.category = "Footwear", !.gender = "women"]}
      [] kind = "brand" -> {PlainAttrs}
      [] kind = "collection" ->
           {PlainAttrs, [PlainAttrs EXCEPT !.season = "Winter", !.category = "Outdoor"]}

RECURSIVE Flatten(_)
Flatten(lists) == IF lists = <<>> THEN <<>> ELSE Head(lists) \o Flatten(Tail(lists))

RECURSIVE DistinctNames(_, _)
DistinctNames(names, seen) ==
    IF names = <<>> THEN <<>>
    ELSE IF Normalize(Head(names)) \in seen THEN DistinctNames(Tail(names), seen)
    ELSE <<Head(names)>> \o DistinctNames(Tail(names), seen \cup {Normalize(Head(names))})

\* Every name the strategies can propose for the base name, in their order.
CandidateNames(kind, attrs) ==
    DistinctNames(
        Flatten(CASE kind = "product" ->
                       ProductCandidates(BaseName, attrs.category, attrs.gender,
                                         FirstColor(attrs.colors))
                  [] kind = "brand" -> BrandCandidates(BaseName)
                  [] kind = "collection" ->
                       CollectionCandidates(BaseName, attrs.season, attrs.category)),
        {})

\* Names an entry after the head may carry: the base name again (as written,
\* in upper case, padded) or a name that already looks like a numbered suffix.
TailNames(kind, k) ==
    {BaseName, UpperName, PaddedName,
     Suffixed(kind, BaseName, k + 2), Suffixed(kind, BaseName, k + 3)}

\* The input lists: the base name, the first k names the strategies would
\* propose for it, then up to MaxTail further entries.
DedupInputs(kind, attrs) ==
    LET cands == CandidateNames(kind, attrs)
    IN  UNION {
          { <<Entry(BaseName, PlainAttrs)>>
              \o [i \in 1..k |-> Entry(cands[i], PlainAttrs)]
              \o [i \in 1..Len(tail) |-> Entry(tail[i], attrs)]
            : tail \in SeqsBetween(TailNames(kind, k), 0, MaxTail) }
          : k \in 0..Len(cands) }

InputsDedup ==
    /\ \E kind \in DedupKinds :
         \E attrs \in AttrChoices(kind) :
           /\ dd_kind = kind
           /\ dd_input \in DedupInputs(kind, attrs)
    /\ dd_result = [raised |-> "none", out |-> <<>>, fallbacks |-> <<>>]
    /\ dd_pc = "call"

DedupCall(kind, result) ==
    /\ dd_pc = "call"
    /\ dd_kind = kind
    /\ dd_result' = result
    /\ dd_pc' = "done"
    /\ UNCHANGED <<dd_kind, dd_input>>

CallDeduplicateProducts == DedupCall("product", deduplicate_product_names(dd_input))

CallDeduplicateBrands == DedupCall("brand", deduplicate_brand_names(dd_input))

CallDeduplicateCollections == DedupCall("collection", deduplicate_collection_names(dd_input))

\* -------------------------------------------------------------- generators

(***************************************************************************)
(* ProductGenerator.generate_products and ReviewGenerator.generate_reviews,*)
(* one step per await: the loop head allocates the identifiers of a batch  *)
(* and sends the first request; each response of the generation capability *)
(* is handled up to the next request, the end of the stage or an exception *)
(* that leaves the generator.  Every request is answered.                  *)
(***************************************************************************)

\* Largest total_count / reviews_per_product, batch_size and max_retries.
MaxTotal == 2

MaxBatch == 2

MaxRetries == 2

\* A response may list this many elements more than the batch asked for.
MaxExtra == 1

\* None, and identifiers that no allocator of the run has issued.
NoId == [p |-> "none", s |-> 0]

ForeignId(prefix) == [p |-> prefix, s |-> 0]

\* brand_id = "default_brand", collection_id = "default_collection"
DefaultBrand == [p |-> "default_brand", s |-> 0]

DefaultCollection == [p |-> "default_collection", s |-> 0]

Min(a, b) == IF a < b THEN a ELSE b

OtherName == <<W("summit"), SP, W("wool"), SP, W("scarf")>>

\* ---- the responses of the generation capability

\* The elements a product response may list, for a request that named
\* brand_id, collection_id and product_ids: objects that pass the schema
\* (valid) or miss a required field, with or without an id of their own,
\* and an element that is no object.
ProductElems(request) ==
    { [kind |-> "obj", valid |-> TRUE, id |-> NoId, name |-> BaseName,
       brand_id |-> request.brand_id, collection_id |-> request.collection_id,
       colors |-> <<>>],
      [kind |-> "obj", valid |-> TRUE, id |-> request.ids[1], name |-> OtherName,
       brand_id |-> request.brand_id, collection_id |-> request.collection_id,
       colors |-> <<W("red")>>],
      [kind |-> "obj", valid |-> TRUE, id |-> ForeignId("product"), name |-> BaseName,
       brand_id |-> ForeignId("brand"), collection_id |-> ForeignId("collection"),
       colors |-> <<W("red")>>],
      [kind |-> "obj", valid |-> FALSE, id |-> NoId, name |-> BaseName,
       brand_id |-> request.brand_id, collection_id |-> request.collection_id,
       colors |-> <<>>],
      [kind |-> "str"] }

\* The elements a review response may list, for a request about product_id.
ReviewElems(request) ==
    { [kind |-> "obj", valid |-> TRUE, id |-> NoId, product_id |-> request.product_id,
       rating |-> 5, helpful_votes |-> 0, review_date |-> "absent"],
      [kind |-> "obj", valid |-> TRUE, id |-> request.ids[1], product_id |-> ForeignId("product"),
       rating |-> 1, helpful_votes |-> 3, review_date |-> "2024-01-01"],
      [kind |-> "obj", valid |-> TRUE, id |-> NoId, product_id |-> request.product_id,
       rating |-> 6, helpful_votes |-> 0, review_date |-> "absent"],
      [kind |-> "obj", valid |-> TRUE, id |-> NoId, product_id |-> request.product_id,
       rating |-> 3, helpful_votes |-> -1, review_date |-> "absent"],
      [kind |-> "obj", valid |-> FALSE, id |-> NoId, product_id |-> request.product_id,
       rating |-> 4, helpful_votes |-> 0, review_date |-> "absent"],
      [kind |-> "str"] }

\* response.content: text json.loads rejects, or JSON text for a number, an
\* object (with keys, or {}), or a list of elements.
Responses(elems, count) ==
    { [kind |-> "badjson", elems |-> <<>>], [kind |-> "number", elems |-> <<>>],
      [kind |-> "object", elems |-> <<>>], [kind |-> "empty_object", elems |-> <<>>] }
    \cup { [kind |-> "list", elems |-> s] : s \in SeqsBetween(elems, 0, count + MaxExtra) }

\* ---- one attempt of ProductGenerator._generate_batch_with_retry

\* expected_id = product_ids[i] if i < len(product_ids) else None
ExpectedId(ids, i) == IF i <= Len(ids) THEN ids[i] ELSE NoId

\* if expected_id and data.get("id") != expected_id: data["id"] = expected_id
ForceId(elem, expected_id) ==
    IF expected_id # NoId /\ elem.id # expected_id
    THEN [elem EXCEPT !.id = expected_id]
    ELSE elem

\* Product(**product_data): every field is required.
ProductValid(elem) == elem.kind = "obj" /\ elem.valid /\ elem.id # NoId

\* The Product, as product.dict() hands it to the deduplication.  pos is
\* history: the position of the element in the payload.
MakeProduct(elem, pos) ==
    [id |-> elem.id, name |-> elem.name, brand_id |-> elem.brand_id,
     collection_id |-> elem.collection_id, colors |-> ListColors(elem.colors),
     category |-> "Footwear", gender |-> "women", pos |-> pos]

\* The for loop over enumerate(products_data), from position i on.
RECURSIVE ValidateProducts(_, _, _, _)
ValidateProducts(elems, i, ids, acc) ==
    IF i > Len(elems) THEN [raised |-> "none", out |-> acc]
    ELSE LET elem == elems[i]
             expected_id == ExpectedId(ids, i)
         IN  IF expected_id # NoId /\ elem.kind # "obj"
             THEN [raised |-> "AttributeError", out |-> <<>>]
             ELSE IF elem.kind # "obj"
             THEN ValidateProducts(elems, i + 1, ids, acc)
             ELSE LET data == ForceId(elem, expected_id)
                  IN  IF ProductValid(data)
                      THEN ValidateProducts(elems, i + 1, ids, Append(acc, MakeProduct(data, i)))
                      ELSE ValidateProducts(elems, i + 1, ids, acc)

\* What one attempt does with the response: status is "failed" (the except
\* clause caught JSONDecodeError or ValueError), "raised" (another exception
\* left the method, from the statement named by where) or "ok" (the method
\* returned out).  json.loads rejects the text; enumerate() rejects a number;
\* iterating an object yields its keys, which have no .get; {} has no keys.
ProductAttempt(resp, ids) ==
    CASE resp.kind = "badjson" ->
           [status |-> "failed", exc |-> "JSONDecodeError", where |-> "parse", out |-> <<>>]
      [] resp.kind = "number" ->
           [status |-> "raised", exc |-> "TypeError", where |-> "payload", out |-> <<>>]
      [] resp.kind = "object" ->
           [status |-> "raised", exc |-> "AttributeError", where |-> "payload", out |-> <<>>]
      [] OTHER ->
           LET v == ValidateProducts(resp.elems, 1, ids, <<>>)
               d == deduplicate_product_names(v.out)
           IN  IF v.raised # "none"
               THEN [status |-> "raised", exc |-> v.raised, where |-> "payload", out |-> <<>>]
               ELSE IF d.raised # "none"
               THEN [status |-> "raised", exc |-> d.raised, where |-> "dedup", out |-> <<>>]
               ELSE [status |-> "ok", exc |-> "none", where |-> "none", out |-> d.out]

\* ---- one attempt of ReviewGenerator._generate_batch_with_retry

\* Review(**review_data): every field but size_worn and color_purchased is
\* required, rating is in 1..5 and helpful_votes is at least 0.
ReviewValid(elem) ==
    /\ elem.kind = "obj"
    /\ elem.valid
    /\ elem.id # NoId
    /\ elem.rating >= 1
    /\ elem.rating <= 5
    /\ elem.helpful_votes >= 0

\* if "review_date" not in review_data: review_data["review_date"] = ...
FillDate(elem) ==
    IF elem.review_date = "absent" THEN [elem EXCEPT !.review_date = "generated"] ELSE elem

MakeReview(elem, pos) ==
    [id |-> elem.id, product_id |-> elem.product_id, rating |-> elem.rating,
     helpful_votes |-> elem.helpful_votes, review_date |-> elem.review_date,
     pos |-> pos]

\* The for loop over enumerate(reviews_data), from position i on.  An element
\* that is no object raises at .get when an identifier is expected, and at the
\* review_date test or assignment otherwise.
RECURSIVE ValidateReviews(_, _, _, _)
ValidateReviews(elems, i, ids, acc) ==
    IF i > Len(elems) THEN [raised |-> "none", out |-> acc]
    ELSE LET elem == elems[i]
             expected_id == ExpectedId(ids, i)
         IN  IF elem.kind # "obj"
             THEN [raised |-> IF expected_id # NoId THEN "AttributeError" ELSE "TypeError",
                   out |-> <<>>]
             ELSE LET data == FillDate(ForceId(elem, expected_id))
                  IN  IF ReviewValid(data)
                      THEN ValidateReviews(elems, i + 1, ids, Append(acc, MakeReview(data, i)))
                      ELSE ValidateReviews(elems, i + 1, ids, acc)

ReviewAttempt(resp, ids) ==
    CASE resp.kind = "badjson" ->
           [status |-> "failed", exc |-> "JSONDecodeError", where |-> "parse", out |-> <<>>]
      [] resp.kind = "number" ->
           [status |-> "raised", exc |-> "TypeError", where |-> "payload", out |-> <<>>]
      [] resp.kind = "object" ->
           [status |-> "raised", exc |-> "AttributeError", where |-> "payload", out |-> <<>>]
      [] OTHER ->
           LET v == ValidateReviews(resp.elems, 1, ids, <<>>)
           IN  IF v.raised # "none"
               THEN [status |-> "raised", exc |-> v.raised, where |-> "payload", out |-> <<>>]
               ELSE [status |-> "ok", exc |-> "none", where |-> "none", out |-> v.out]

\* ---- the stages

Range(s) == {s[i] : i \in 1..Len(s)}

\* A mutant of Exhausted: the last attempt is taken for one more.
ExhaustedLate(attempt_no, retries) == attempt_no = retries

\* `if attempt == self.max_retries - 1` (the same test in review_gen.py)
Exhausted(attempt_no, retries) == attempt_no = retries - 1

NoCall ==
    [count |-> 0, ids |-> <<>>, brand_id |-> NoId, collection_id |-> NoId,
     product_id |-> NoId]

\* last_batch before any batch has ended, and while one is under way.
NoBatch ==
    [status |-> "none", where |-> "none", failed |-> 0, ids |-> <<>>,
     kind |-> "none", payload |-> <<>>, out |-> <<>>, had |-> 0]

\* The entities the stage holds: len(products), or the reviews of the
\* products done and of the product under way.
Held ==
    IF cfg.stage = "product" THEN Len(products)
    ELSE Len(reviews) + Len(product_reviews)

\* The end of _generate_batch_with_retry, as history: the response it ended
\* on, the number of responses json.loads rejected, the list it returned and
\* the number of entities the stage held before.
BatchRecord(status, where, failed, resp, out) ==
    [status |-> status, where |-> where, failed |-> failed, ids |-> call.ids,
     kind |-> resp.kind, payload |-> resp.elems, out |-> out, had |-> Held]

\* A mutant of NumBatches: one iteration more.
NumBatchesOneMore == (cfg.total_count + cfg.batch_size - 1) \div cfg.batch_size + 1

\* num_batches = (total_count + self.batch_size - 1) // self.batch_size
NumBatches == (cfg.total_count + cfg.batch_size - 1) \div cfg.batch_size

\* A mutant of Continue: the break on len(products) >= total_count is dropped.
ContinueNoBreak == batch_idx < NumBatches

\* The for loop over range(num_batches) has an iteration left and the break
\* on len(products) >= total_count was not taken.
Continue == batch_idx < NumBatches /\ Len(products) < cfg.total_count

\* brand_id / collection_id of a batch: the placeholder when the list is
\* empty, random.choice otherwise.
ParentChoices(parent_ids, placeholder) ==
    IF parent_ids = <<>> THEN {placeholder} ELSE Range(parent_ids)

\* The element at position i of the batch's payload passes the schema once
\* its id is forced (and, for a review, its date filled in).
Passes(b, i) ==
    LET data == ForceId(b.payload[i], ExpectedId(b.ids, i))
    IN  IF cfg.stage = "product" THEN ProductValid(data)
        ELSE ReviewValid(FillDate(data))

\* The elements of the payload that pass the schema.
PassCount(resp) ==
    Cardinality({i \in 1..Len(resp.elems) :
                    Passes([payload |-> resp.elems, ids |-> call.ids], i)})

\* A mutant of BatchReturned: the loop goes on while the request is out.
BatchReturnedEarly == pc \in {"loop", "await"}

\* batch_products = await self._generate_batch_with_retry(...): the loop is
\* at its head only when the awaited call of the batch before has returned.
BatchReturned == pc = "loop"

NoneInFlight == [outstanding |-> 0, started |-> 0, finished |-> 0]

NoRequests == [calls |-> 0, settled |-> FALSE]

\* await self.llm.ainvoke(messages) for the first attempt of a batch.
BatchStarts ==
    inflight' = [inflight EXCEPT !.outstanding = @ + 1, !.started = @ + 1]

\* The response of the last attempt of a batch has been handled.
BatchFinishes ==
    inflight' = [inflight EXCEPT !.outstanding = @ - 1, !.finished = @ + 1]

\* generate_products, one iteration up to the first request of the batch.
ProductBatch ==
    /\ cfg.stage = "product"
    /\ BatchReturned
    /\ Continue
    /\ LET batch_count == Min(cfg.batch_size, cfg.total_count - Len(products))
       IN  \E draws \in DrawSeqs(batch_count),
              brand_id \in ParentChoices(cfg.brand_ids, DefaultBrand),
              collection_id \in ParentChoices(cfg.collection_ids, DefaultCollection) :
                LET r == Allocation("product", batch_count, used_ids, draws)
                IN  /\ Completes(r)
                    /\ used_ids' = r.used
                    /\ call' = [count |-> batch_count, ids |-> r.ids,
                                brand_id |-> brand_id, collection_id |-> collection_id,
                                product_id |-> NoId]
    /\ attempt' = 0
    /\ last_batch' = NoBatch
    /\ pc' = "await"
    /\ BatchStarts
    /\ requests' = [calls |-> 1, settled |-> FALSE]
    /\ UNCHANGED <<cfg, products, reviews, product_reviews, batch_idx, prod_idx,
                   batches, exhausted, returned, exc, passed>>

\* The response to a product request, up to the next request, the end of the
\* batch or the exception that leaves generate_products.
ProductRespond ==
    /\ cfg.stage = "product"
    /\ pc = "await"
    /\ \E resp \in Responses(ProductElems(call), call.count) :
         LET a == ProductAttempt(resp, call.ids)
         IN  \/ /\ a.status = "failed"
                /\ ~Exhausted(attempt, cfg.max_retries)
                /\ attempt' = attempt + 1
                /\ requests' = [requests EXCEPT !.calls = @ + 1]
                /\ UNCHANGED <<pc, products, batch_idx, last_batch, exhausted, exc,
                               inflight, passed>>
             \/ /\ a.status = "failed"
                /\ Exhausted(attempt, cfg.max_retries)
                /\ last_batch' = BatchRecord("exhausted", "none", attempt + 1, resp, <<>>)
                /\ exhausted' = exhausted + 1
                /\ batch_idx' = batch_idx + 1
                /\ pc' = "loop"
                /\ BatchFinishes
                /\ UNCHANGED <<products, attempt, exc, passed, requests>>
             \/ /\ a.status = "ok"
                /\ last_batch' = BatchRecord("ok", "none", attempt, resp, a.out)
                /\ products' = products \o a.out
                /\ batch_idx' = batch_idx + 1
                /\ pc' = "loop"
                /\ BatchFinishes
                /\ passed' = passed + PassCount(resp)
                /\ requests' = [requests EXCEPT !.settled = TRUE]
                /\ UNCHANGED <<attempt, exhausted, exc>>
             \/ /\ a.status = "raised"
                /\ last_batch' = BatchRecord("raised", a.where, attempt, resp, <<>>)
                /\ exc' = a.exc
                /\ pc' = "aborted"
                /\ BatchFinishes
                /\ requests' = [requests EXCEPT !.settled = TRUE]
                /\ UNCHANGED <<products, batch_idx, attempt, exhausted, passed>>
    /\ UNCHANGED <<cfg, reviews, product_reviews, prod_idx, batches, call, returned,
                   used_ids>>

\* generate_products after the loop: the final deduplication and the slice.
ProductFinish ==
    /\ cfg.stage = "product"
    /\ pc = "loop"
    /\ ~Continue
    /\ LET d == deduplicate_product_names(products)
       IN  IF d.raised # "none"
           THEN /\ exc' = d.raised
                /\ last_batch' = [NoBatch EXCEPT !.status = "raised", !.where = "final_dedup"]
                /\ pc' = "aborted"
                /\ UNCHANGED returned
           ELSE /\ returned' = SubSeq(d.out, 1, Min(Len(d.out), cfg.total_count))
                /\ last_batch' = NoBatch
                /\ pc' = "done"
                /\ UNCHANGED exc
    /\ UNCHANGED <<cfg, products, reviews, product_reviews, batch_idx, prod_idx,
                   batches, call, attempt, exhausted, used_ids, inflight, passed,
                   requests>>

\* batches of _generate_product_reviews:
\* [min(batch_size, count - i) for i in range(0, count, batch_size)]
RECURSIVE BatchList(_, _)
BatchList(count, size) ==
    IF count <= 0 THEN <<>>
    ELSE <<Min(size, count)>> \o BatchList(count - size, size)

\* generate_reviews, up to the first request of the next batch: of the
\* product under way, or of the next product once its batches are done.
ReviewBatch ==
    /\ cfg.stage = "review"
    /\ BatchReturned
    /\ prod_idx <= Len(cfg.products)
    /\ batches # <<>>
    /\ LET batch_count == Head(batches)
       IN  \E draws \in DrawSeqs(batch_count) :
             LET r == Allocation("review", batch_count, used_ids, draws)
             IN  /\ Completes(r)
                 /\ used_ids' = r.used
                 /\ call' = [count |-> batch_count, ids |-> r.ids, brand_id |-> NoId,
                             collection_id |-> NoId,
                             product_id |-> cfg.products[prod_idx].id]
    /\ attempt' = 0
    /\ last_batch' = NoBatch
    /\ pc' = "await"
    /\ BatchStarts
    /\ requests' = [calls |-> 1, settled |-> FALSE]
    /\ UNCHANGED <<cfg, products, reviews, product_reviews, batch_idx, prod_idx,
                   batches, exhausted, returned, exc, passed>>

\* product_reviews.extend(batch_reviews); after the last batch of a product
\* reviews.extend(product_reviews) and the next product's batches.
ReviewBatchEnds(batch_reviews) ==
    IF Tail(batches) # <<>>
    THEN /\ product_reviews' = product_reviews \o batch_reviews
         /\ batches' = Tail(batches)
         /\ UNCHANGED <<reviews, prod_idx>>
    ELSE /\ reviews' = reviews \o product_reviews \o batch_reviews
         /\ product_reviews' = <<>>
         /\ prod_idx' = prod_idx + 1
         /\ batches' = BatchList(cfg.reviews_per_product, cfg.batch_size)

ReviewRespond ==
    /\ cfg.stage = "review"
    /\ pc = "await"
    /\ \E resp \in Responses(ReviewElems(call), call.count) :
         LET a == ReviewAttempt(resp, call.ids)
         IN  \/ /\ a.status = "failed"
                /\ ~Exhausted(attempt, cfg.max_retries)
                /\ attempt' = attempt + 1
                /\ requests' = [requests EXCEPT !.calls = @ + 1]
                /\ UNCHANGED <<pc, reviews, product_reviews, prod_idx, batches,
                               last_batch, exhausted, exc, inflight, passed>>
             \/ /\ a.status = "failed"
                /\ Exhausted(attempt, cfg.max_retries)
                /\ last_batch' = BatchRecord("exhausted", "none", attempt + 1, resp, <<>>)
                /\ exhausted' = exhausted + 1
                /\ ReviewBatchEnds(<<>>)
                /\ pc' = "loop"
                /\ BatchFinishes
                /\ UNCHANGED <<attempt, exc, passed, requests>>
             \/ /\ a.status = "ok"
                /\ last_batch' = BatchRecord("ok", "none", attempt, resp, a.out)
                /\ ReviewBatchEnds(a.out)
                /\ pc' = "loop"
                /\ BatchFinishes
                /\ passed' = passed + PassCount(resp)
                /\ requests' = [requests EXCEPT !.settled = TRUE]
                /\ UNCHANGED <<attempt, exhausted, exc>>
             \/ /\ a.status = "raised"
                /\ last_batch' = BatchRecord("raised", a.where, attempt, resp, <<>>)
                /\ exc' = a.exc
                /\ pc' = "aborted"
                /\ BatchFinishes
                /\ requests' = [requests EXCEPT !.settled = TRUE]
                /\ UNCHANGED <<reviews, product_reviews, prod_idx, batches, attempt,
                               exhausted, passed>>
    /\ UNCHANGED <<cfg, products, batch_idx, call, returned, used_ids>>

\* generate_reviews after the last product: return reviews.
ReviewFinish ==
    /\ cfg.stage = "review"
    /\ pc = "loop"
    /\ prod_idx > Len(cfg.products)
    /\ returned' = reviews
    /\ last_batch' = NoBatch
    /\ pc' = "done"
    /\ UNCHANGED <<cfg, products, reviews, product_reviews, batch_idx, prod_idx,
                   batches, call, attempt, exhausted, exc, used_ids, inflight, passed,
                   requests>>

\* ---- the runs of a stage Spec starts from

\* A Product of the run's output, handed to generate_reviews.
RunProduct(k) ==
    [id |-> MkId("product", k), name |-> BaseName, brand_id |-> MkId("brand", 1),
     collection_id |-> MkId("collection", 1), colors |-> ListColors(<<>>),
     category |-> "Footwear", gender |-> "women", pos |-> k]

\* generate_products(brands, collections, total_count) on a generator built
\* with batch_size and max_retries; the earlier stages produced two brands
\* or none, one collection or none.
ProductConfigs ==
    [stage : {"product"}, total_count : 1..MaxTotal, batch_size : 1..MaxBatch,
     max_retries : 1..MaxRetries,
     brand_ids : {<<>>, <<MkId("brand", 1), MkId("brand", 2)>>},
     collection_ids : {<<>>, <<MkId("collection", 1)>>},
     products : {<<>>}, reviews_per_product : {0}]

\* generate_reviews(products, reviews_per_product)
ReviewConfigs ==
    [stage : {"review"}, total_count : {0}, batch_size : 1..MaxBatch,
     max_retries : 1..MaxRetries, brand_ids : {<<>>}, collection_ids : {<<>>},
     products : {<<>>, <<RunProduct(1)>>, <<RunProduct(1), RunProduct(2)>>},
     reviews_per_product : 1..MaxTotal]

StartStage ==
    /\ cfg \in ProductConfigs \cup ReviewConfigs
    /\ pc = "loop"
    /\ products = <<>>
    /\ reviews = <<>>
    /\ product_reviews = <<>>
    /\ batch_idx = 0
    /\ prod_idx = 1
    /\ batches = BatchList(cfg.reviews_per_product, cfg.batch_size)
    /\ call = NoCall
    /\ attempt = 0
    /\ last_batch = NoBatch
    /\ exhausted = 0
    /\ returned = <<>>
    /\ exc = "none"
    /\ inflight = NoneInFlight
    /\ passed = 0
    /\ requests = NoRequests

\* ---- BrandGenerator.generate_brands, CollectionGenerator.generate_collections

\* max_attempts = 3
max_attempts == 3

\* The object a brand or collection response may hold: a name that is a
\* string (possibly empty or blank) or null, the other required fields
\* present (valid) or not, an id of its own or none.
EntityObjects(request) ==
    { [named |-> "str", name |-> BaseName, valid |-> TRUE, id |-> NoId,
       brand_id |-> request.brand_id, season |-> "Winter", category |-> "Outdoor"],
      [named |-> "str", name |-> UpperName, valid |-> TRUE,
       id |-> ForeignId("collection"), brand_id |-> ForeignId("brand"),
       season |-> "", category |-> ""],
      [named |-> "str", name |-> OtherName, valid |-> TRUE, id |-> request.ids[1],
       brand_id |-> request.brand_id, season |-> "", category |-> ""],
      [named |-> "str", name |-> <<>>, valid |-> TRUE, id |-> NoId,
       brand_id |-> request.brand_id, season |-> "", category |-> ""],
      [named |-> "str", name |-> <<SP>>, valid |-> TRUE, id |-> NoId,
       brand_id |-> request.brand_id, season |-> "", category |-> ""],
      [named |-> "str", name |-> BaseName, valid |-> FALSE, id |-> NoId,
       brand_id |-> request.brand_id, season |-> "", category |-> ""],
      [named |-> "null", name |-> <<>>, valid |-> TRUE, id |-> NoId,
       brand_id |-> request.brand_id, season |-> "", category |-> ""] }

\* response.content: text json.loads rejects, a number, a list, or an object.
EntityResponses(request) ==
    { [kind |-> "badjson", data |-> <<>>], [kind |-> "number", data |-> <<>>],
      [kind |-> "list", data |-> <<>>] }
    \cup { [kind |-> "object", data |-> <<o>>] : o \in EntityObjects(request) }

\* brands.append(brand) / collections.append(collection)
MakeEntity(data, pos) ==
    [id |-> data.id, name |-> data.name, brand_id |-> data.brand_id,
     season |-> data.season, category |-> data.category, pos |-> pos]

\* A mutant of BlankName: the name is tested without .strip().
BlankNameUntrimmed(name) == name = <<>>

\* brand_name = brand_data.get("name", "").strip(); `if not brand_name`
BlankName(name) == Strip(name) = <<>>

\* The response is an object whose name is missing, empty or blank.
Nameless(resp) ==
    /\ resp.kind = "object"
    /\ resp.data[1].named = "str"
    /\ BlankName(resp.data[1].name)

\* The body of the try block from json.loads on, for the entity whose
\* identifier is expected_id: "retry" is the continue (of the missing name
\* or of the except clause), "raised" an exception the clause does not catch.
EntityAttempt(resp, expected_id, pos) ==
    CASE resp.kind = "badjson" ->
           [status |-> "retry", exc |-> "JSONDecodeError", out |-> <<>>]
      [] resp.kind \in {"number", "list"} ->
           [status |-> "raised", exc |-> "AttributeError", out |-> <<>>]
      [] OTHER ->
           LET data == resp.data[1]
           IN  IF data.named # "str"
               THEN [status |-> "raised", exc |-> "AttributeError", out |-> <<>>]
               ELSE IF BlankName(data.name)
               THEN [status |-> "retry", exc |-> "none", out |-> <<>>]
               ELSE IF ~data.valid
               THEN [status |-> "retry", exc |-> "ValidationError", out |-> <<>>]
               ELSE [status |-> "ok", exc |-> "none",
                     out |-> <<MakeEntity(ForceId(data, expected_id), pos)>>]

\* A mutant of MoreAttempts: a fourth attempt.
MoreAttemptsOneMore(attempt_no) == attempt_no + 1 < max_attempts + 1

\* `for attempt in range(max_attempts)` has a value after attempt_no.
MoreAttempts(attempt_no) == attempt_no + 1 < max_attempts

\* A mutant of NoParents: the test is dropped.
NoParentsNever(brand_ids) == FALSE

\* `if not brand_ids`
NoParents(brand_ids) == brand_ids = <<>>

\* A mutant of ParentFor: every collection is asked for the first brand.
ParentForFirst(brand_ids, i) == brand_ids[1]

\* brand_id = brand_ids[i % len(brand_ids)]
ParentFor(brand_ids, i) == brand_ids[(i % Len(brand_ids)) + 1]

\* brand_ids = self.id_generator.generate_brand_ids(count) and the same line
\* of generate_collections, before the loop.
PreGenerate(stage) ==
    /\ cfg.stage = stage
    /\ pc = "start"
    /\ \E draws \in DrawSeqs(cfg.total_count) :
         LET r == Allocation(stage, cfg.total_count, used_ids, draws)
         IN  /\ Completes(r)
             /\ used_ids' = r.used
             /\ new_ids' = r.ids
    /\ pc' = "loop"
    /\ UNCHANGED <<cfg, products, reviews, product_reviews, batch_idx, prod_idx,
                   batches, call, attempt, last_batch, exhausted, returned, exc,
                   inflight, passed, requests, brands, collections,
                   requested_for, blank_names>>

BrandIds == PreGenerate("brand")

CollectionIds == PreGenerate("collection")

\* generate_brands: the first request for the next identifier.
BrandRequest ==
    /\ cfg.stage = "brand"
    /\ pc = "loop"
    /\ batch_idx < Len(new_ids)
    /\ call' = [NoCall EXCEPT !.count = 1, !.ids = <<new_ids[batch_idx + 1]>>]
    /\ attempt' = 0
    /\ pc' = "await"
    /\ BatchStarts
    /\ requests' = [calls |-> 1, settled |-> FALSE]
    /\ UNCHANGED <<cfg, products, reviews, product_reviews, batch_idx, prod_idx,
                   batches, last_batch, exhausted, returned, exc, passed, used_ids,
                   new_ids, brands, collections,
                   requested_for, blank_names>>

\* generate_collections, the next identifier with brand_ids empty: the break
\* of the first attempt, before any request.
CollectionSkipped ==
    /\ cfg.stage = "collection"
    /\ pc = "loop"
    /\ batch_idx < Len(new_ids)
    /\ NoParents(cfg.brand_ids)
    /\ batch_idx' = batch_idx + 1
    /\ UNCHANGED <<cfg, pc, products, reviews, product_reviews, prod_idx, batches,
                   call, attempt, last_batch, exhausted, returned, exc, inflight,
                   passed, requests, used_ids, new_ids, brands, collections,
                   requested_for, blank_names>>

\* generate_collections: the first request for the next identifier, for the
\* brand brand_ids[i % len(brand_ids)] (ZeroDivisionError when there is none).
CollectionRequest ==
    /\ cfg.stage = "collection"
    /\ pc = "loop"
    /\ batch_idx < Len(new_ids)
    /\ ~NoParents(cfg.brand_ids)
    /\ IF Len(cfg.brand_ids) = 0
       THEN /\ exc' = "ZeroDivisionError"
            /\ pc' = "aborted"
            /\ UNCHANGED <<call, attempt, inflight, requests, requested_for>>
       ELSE /\ call' = [NoCall EXCEPT
                          !.count = 1,
                          !.ids = <<new_ids[batch_idx + 1]>>,
                          !.brand_id = ParentFor(cfg.brand_ids, batch_idx)]
            /\ requested_for' = Append(requested_for,
                                       [i |-> batch_idx,
                                        brand_id |-> ParentFor(cfg.brand_ids, batch_idx)])
            /\ attempt' = 0
            /\ pc' = "await"
            /\ BatchStarts
            /\ requests' = [calls |-> 1, settled |-> FALSE]
            /\ UNCHANGED exc
    /\ UNCHANGED <<cfg, products, reviews, product_reviews, batch_idx, prod_idx,
                   batches, last_batch, exhausted, returned, passed, used_ids,
                   new_ids, brands, collections, blank_names>>

\* The response to a brand or collection request, up to the next request,
\* the next identifier or the exception that leaves the function.
EntityRespond(stage) ==
    /\ cfg.stage = stage
    /\ pc = "await"
    /\ \E resp \in EntityResponses(call) :
         LET a == EntityAttempt(resp, call.ids[1], batch_idx + 1)
         IN  /\ blank_names' = blank_names + (IF Nameless(resp) THEN 1 ELSE 0)
             /\ \/ /\ a.status = "retry"
                   /\ MoreAttempts(attempt)
                   /\ attempt' = attempt + 1
                   /\ requests' = [requests EXCEPT !.calls = @ + 1]
                   /\ UNCHANGED <<pc, batch_idx, exhausted, exc, inflight, brands,
                                  collections>>
                \/ /\ a.status = "retry"
                   /\ ~MoreAttempts(attempt)
                   /\ exhausted' = exhausted + 1
                   /\ batch_idx' = batch_idx + 1
                   /\ pc' = "loop"
                   /\ BatchFinishes
                   /\ UNCHANGED <<attempt, exc, requests, brands, collections>>
                \/ /\ a.status = "ok"
                   /\ IF stage = "brand"
                      THEN brands' = brands \o a.out /\ UNCHANGED collections
                      ELSE collections' = collections \o a.out /\ UNCHANGED brands
                   /\ batch_idx' = batch_idx + 1
                   /\ pc' = "loop"
                   /\ BatchFinishes
                   /\ requests' = [requests EXCEPT !.settled = TRUE]
                   /\ UNCHANGED <<attempt, exhausted, exc>>
                \/ /\ a.status = "raised"
                   /\ exc' = a.exc
                   /\ pc' = "aborted"
                   /\ BatchFinishes
                   /\ UNCHANGED <<batch_idx, attempt, exhausted, requests, brands,
                                  collections>>
    /\ UNCHANGED <<cfg, products, reviews, product_reviews, prod_idx, batches, call,
                   last_batch, returned, passed, used_ids, new_ids, requested_for>>

BrandRespond == EntityRespond("brand")

CollectionRespond == EntityRespond("collection")

\* generate_brands after the loop: the final deduplication, and Brand(**...)
\* on each entry of its result.
BrandFinish ==
    /\ cfg.stage = "brand"
    /\ pc = "loop"
    /\ batch_idx >= Len(new_ids)
    /\ returned' = deduplicate_brand_names(brands).out
    /\ pc' = "done"
    /\ UNCHANGED <<cfg, products, reviews, product_reviews, batch_idx, prod_idx,
                   batches, call, attempt, last_batch, exhausted, exc, inflight,
                   passed, requests, used_ids, new_ids, brands, collections,
                   requested_for, blank_names>>

\* generate_collections after the loop: return collections.
CollectionFinish ==
    /\ cfg.stage = "collection"
    /\ pc = "loop"
    /\ batch_idx >= Len(new_ids)
    /\ returned' = collections
    /\ pc' = "done"
    /\ UNCHANGED <<cfg, products, reviews, product_reviews, batch_idx, prod_idx,
                   batches, call, attempt, last_batch, exhausted, exc, inflight,
                   passed, requests, used_ids, new_ids, brands, collections,
                   requested_for, blank_names>>

\* generate_brands(brand_context, count)
BrandConfigs ==
    [stage : {"brand"}, total_count : 0..MaxEntities, batch_size : {1},
     max_retries : {max_attempts}, brand_ids : {<<>>}, collection_ids : {<<>>},
     products : {<<>>}, reviews_per_product : {0}]

\* generate_collections(brand_context, brand_ids, count); the brand stage
\* returned no brand, one or two.
CollectionConfigs ==
    [stage : {"collection"}, total_count : 0..MaxEntities, batch_size : {1},
     max_retries : {max_attempts},
     brand_ids : {<<>>, <<MkId("brand", 1)>>, <<MkId("brand", 1), MkId("brand", 2)>>},
     collection_ids : {<<>>}, products : {<<>>}, reviews_per_product : {0}]

NoEnt ==
    /\ new_ids = <<>>
    /\ brands = <<>>
    /\ collections = <<>>
    /\ requested_for = <<>>
    /\ blank_names = 0

\* The generator stages SpecStages starts from: any of the four.
StartStages ==
    \/ StartStage
    \/ /\ cfg \in BrandConfigs \cup CollectionConfigs
       /\ pc = "start"
       /\ products = <<>>
       /\ reviews = <<>>
       /\ product_reviews = <<>>
       /\ batch_idx = 0
       /\ prod_idx = 1
       /\ batches = <<>>
       /\ call = NoCall
       /\ attempt = 0
       /\ last_batch = NoBatch
       /\ exhausted = 0
       /\ returned = <<>>
       /\ exc = "none"
       /\ inflight = NoneInFlight
       /\ passed = 0
       /\ requests = NoRequests

\* ---- the calls SpecNames makes on one NameValidator

\* add_name calls made on the instance.
MaxAdds == 3

\* The names handed to the instance: two names, written in several ways, and
\* a name with a numbered suffix.
NameUniverse ==
    {BaseName, UpperName, PaddedName, Lower(BaseName), OtherName,
     <<SP, SP>> \o Lower(OtherName), Suffixed("product", BaseName, 2)}

\* validator.add_name(name)
AddName ==
    /\ Len(validator.name_patterns) < MaxAdds
    /\ \E name \in NameUniverse :
         /\ validator' = add_name(validator, name)
         /\ registered' = registered \cup {name}

StartNames ==
    /\ validator = NewValidator
    /\ registered = {}

NoNames ==
    /\ validator = NewValidator
    /\ registered = {}

\* ---------------------------------------------------------------- pipeline

(***************************************************************************)
(* main() and CatalogPipeline.run.  main() is synchronous up to the first  *)
(* await of run(): the credential check, the construction of the pipeline, *)
(* the plan and the call of get_brand_context happen in one step.          *)
(***************************************************************************)

\* Largest --products argument.
MaxProducts == 10000

Max(a, b) == IF a > b THEN a ELSE b

\* A mutant of brand_count: the division rounds down.
brand_count_floor(n) == Max(2, n \div 100)

\* brand_count = max(2, (total_products + 99) // 100)
brand_count(n) == Max(2, (n + 99) \div 100)

\* min_collections = brand_count * 2
min_collections(n) == brand_count(n) * 2

\* A mutant of max_collections: one collection per 10 products.
max_collections_per_ten(n) == (n + 9) \div 10

\* max_collections = (total_products + 99) // 100
max_collections(n) == (n + 99) \div 100

\* A mutant of collection_count: the per-brand minimum is dropped.
collection_count_max_only(n) == max_collections(n)

\* collection_count = max(min_collections, max_collections)
collection_count(n) == Max(min_collections(n), max_collections(n))

\* reviews_per_product = max(2, min(5, 10000 // total_products))
reviews_per_product(n) == Max(2, Min(5, 10000 \div n))

\* total_reviews = total_products * reviews_per_product
total_reviews(n) == n * reviews_per_product(n)

NoPlan == [brands |-> 0, collections |-> 0, reviews_each |-> 0, reviews |-> 0]

\* The generation plan run() prints.
Plan(n) ==
    [brands |-> brand_count(n), collections |-> collection_count(n),
     reviews_each |-> reviews_per_product(n), reviews |-> total_reviews(n)]

\* os.getenv("OPENAI_API_KEY"): unset, set to the empty string, or set.
KeyValues == {"unset", "empty", "set"}

\* A mutant of HasCredential: the check of main() is dropped.
HasCredentialAlways(key) == TRUE

\* `if not os.getenv("OPENAI_API_KEY")` is false
HasCredential(key) == key = "set"

\* get_brand_context(brand_guide_filename=...): the function (wrapped by
\* lru_cache) has the one parameter max_tokens, so the call raises TypeError
\* before its body runs, whether or not the guide exists.
get_brand_context(keywords) ==
    IF keywords \subseteq {"max_tokens"}
    THEN IF env.guide THEN "loaded" ELSE "FileNotFoundError"
    ELSE "TypeError"

\* main() when the credential check fails: the message and return.
MainWithoutCredential ==
    /\ run_pc = "start"
    /\ ~HasCredential(env.key)
    /\ run_pc' = "returned"
    /\ UNCHANGED <<env, total_products, pipeline, plan, context_calls,
                   brand_context, stage_trace, files, run_exc>>

\* main() when the check passes: CatalogPipeline(...) and run() up to its
\* first await, the call of the brand stage, or the exception that leaves it.
MainRuns ==
    /\ run_pc = "start"
    /\ HasCredential(env.key)
    /\ pipeline' = TRUE
    /\ plan' = Plan(total_products)
    /\ context_calls' = context_calls + 1
    /\ LET got == get_brand_context({"brand_guide_filename"})
       IN  IF got = "loaded"
           THEN /\ brand_context' = "loaded"
                /\ stage_trace' = Append(stage_trace, "brands")
                /\ run_pc' = "brands"
                /\ UNCHANGED run_exc
           ELSE /\ run_exc' = got
                /\ run_pc' = "aborted"
                /\ UNCHANGED <<brand_context, stage_trace>>
    /\ UNCHANGED <<env, total_products, files>>

StartRun ==
    /\ env \in [key : KeyValues, guide : BOOLEAN]
    /\ total_products \in 1..MaxProducts
    /\ run_pc = "start"
    /\ pipeline = FALSE
    /\ plan = NoPlan
    /\ context_calls = 0
    /\ brand_context = "none"
    /\ stage_trace = <<>>
    /\ files = {}
    /\ run_exc = "none"

NoRun ==
    /\ env = [key |-> "unset", guide |-> FALSE]
    /\ total_products = 1
    /\ run_pc = "idle"
    /\ pipeline = FALSE
    /\ plan = NoPlan
    /\ context_calls = 0
    /\ brand_context = "none"
    /\ stage_trace = <<>>
    /\ files = {}
    /\ run_exc = "none"

\* ---------------------------------------------------------- specifications

NoIds ==
    /\ used_ids = {}
    /\ issued = [id \in AllIds |-> 0]
    /\ last_ids = <<>>
    /\ last_count = 0
    /\ last_redraws = 0
    /\ n_calls = 0
    /\ id_error = "none"

NoDedup ==
    /\ dd_kind = "none"
    /\ dd_input = <<>>
    /\ dd_result = [raised |-> "none", out |-> <<>>, fallbacks |-> <<>>]
    /\ dd_pc = "idle"

NoGen ==
    /\ cfg = [stage |-> "none", total_count |-> 0, batch_size |-> 1, max_retries |-> 1,
              brand_ids |-> <<>>, collection_ids |-> <<>>, products |-> <<>>,
              reviews_per_product |-> 0]
    /\ pc = "idle"
    /\ products = <<>>
    /\ reviews = <<>>
    /\ product_reviews = <<>>
    /\ batch_idx = 0
    /\ prod_idx = 1
    /\ batches = <<>>
    /\ call = NoCall
    /\ attempt = 0
    /\ last_batch = NoBatch
    /\ exhausted = 0
    /\ returned = <<>>
    /\ exc = "none"
    /\ inflight = NoneInFlight
    /\ passed = 0
    /\ requests = NoRequests

InitIds == NoIds /\ NoDedup /\ NoGen /\ NoRun /\ NoNames /\ NoPair /\ NoDraws /\ NoEnt

NextIds ==
    \/ generate_brand_ids /\ UNCHANGED <<ddVars, genVars, runVars, nameVars, pairVars, drawVars, entVars>>
    \/ generate_collection_ids /\ UNCHANGED <<ddVars, genVars, runVars, nameVars, pairVars, drawVars, entVars>>
    \/ generate_product_ids /\ UNCHANGED <<ddVars, genVars, runVars, nameVars, pairVars, drawVars, entVars>>
    \/ generate_review_ids /\ UNCHANGED <<ddVars, genVars, runVars, nameVars, pairVars, drawVars, entVars>>
    \/ get_id_batch /\ UNCHANGED <<ddVars, genVars, runVars, nameVars, pairVars, drawVars, entVars>>

SpecIds == InitIds /\ [][NextIds]_vars

NextDedup ==
    \/ CallDeduplicateProducts /\ UNCHANGED <<idVars, genVars, runVars, nameVars, pairVars, drawVars, entVars>>
    \/ CallDeduplicateBrands /\ UNCHANGED <<idVars, genVars, runVars, nameVars, pairVars, drawVars, entVars>>
    \/ CallDeduplicateCollections /\ UNCHANGED <<idVars, genVars, runVars, nameVars, pairVars, drawVars, entVars>>

InitDedup == NoIds /\ InputsDedup /\ NoGen /\ NoRun /\ NoNames /\ NoPair /\ NoDraws /\ NoEnt

SpecDedup == InitDedup /\ [][NextDedup]_vars

Next ==
    \/ ProductBatch /\ UNCHANGED <<idHistVars, ddVars, runVars, nameVars, pairVars, drawVars, entVars>>
    \/ ProductRespond /\ UNCHANGED <<idHistVars, ddVars, runVars, nameVars, pairVars, drawVars, entVars>>
    \/ ProductFinish /\ UNCHANGED <<idHistVars, ddVars, runVars, nameVars, pairVars, drawVars, entVars>>
    \/ ReviewBatch /\ UNCHANGED <<idHistVars, ddVars, runVars, nameVars, pairVars, drawVars, entVars>>
    \/ ReviewRespond /\ UNCHANGED <<idHistVars, ddVars, runVars, nameVars, pairVars, drawVars, entVars>>
    \/ ReviewFinish /\ UNCHANGED <<idHistVars, ddVars, runVars, nameVars, pairVars, drawVars, entVars>>

Init == NoIds /\ NoDedup /\ StartStage /\ NoRun /\ NoNames /\ NoPair /\ NoDraws /\ NoEnt

Spec == Init /\ [][Next]_vars

NextRun ==
    \/ MainWithoutCredential /\ UNCHANGED <<idVars, ddVars, genVars, nameVars, pairVars, drawVars, entVars>>
    \/ MainRuns /\ UNCHANGED <<idVars, ddVars, genVars, nameVars, pairVars, drawVars, entVars>>

InitRun == NoIds /\ NoDedup /\ NoGen /\ StartRun /\ NoNames /\ NoPair /\ NoDraws /\ NoEnt

NextNames ==
    \/ AddName /\ UNCHANGED <<idVars, ddVars, genVars, runVars, pairVars, drawVars, entVars>>

InitNames == NoIds /\ NoDedup /\ NoGen /\ NoRun /\ StartNames /\ NoPair /\ NoDraws /\ NoEnt

SpecNames == InitNames /\ [][NextNames]_vars

NextStages ==
    \/ ProductBatch /\ UNCHANGED <<idHistVars, ddVars, runVars, nameVars, pairVars, drawVars, entVars>>
    \/ ProductRespond /\ UNCHANGED <<idHistVars, ddVars, runVars, nameVars, pairVars, drawVars, entVars>>
    \/ ProductFinish /\ UNCHANGED <<idHistVars, ddVars, runVars, nameVars, pairVars, drawVars, entVars>>
    \/ ReviewBatch /\ UNCHANGED <<idHistVars, ddVars, runVars, nameVars, pairVars, drawVars, entVars>>
    \/ ReviewRespond /\ UNCHANGED <<idHistVars, ddVars, runVars, nameVars, pairVars, drawVars, entVars>>
    \/ ReviewFinish /\ UNCHANGED <<idHistVars, ddVars, runVars, nameVars, pairVars, drawVars, entVars>>
    \/ BrandIds /\ UNCHANGED <<idHistVars, ddVars, runVars, nameVars, pairVars, drawVars>>
    \/ BrandRequest /\ UNCHANGED <<idHistVars, ddVars, runVars, nameVars, pairVars, drawVars>>
    \/ BrandRespond /\ UNCHANGED <<idHistVars, ddVars, runVars, nameVars, pairVars, drawVars>>
    \/ BrandFinish /\ UNCHANGED <<idHistVars, ddVars, runVars, nameVars, pairVars, drawVars>>
    \/ CollectionIds /\ UNCHANGED <<idHistVars, ddVars, runVars, nameVars, pairVars, drawVars>>
    \/ CollectionSkipped /\ UNCHANGED <<idHistVars, ddVars, runVars, nameVars, pairVars, drawVars>>
    \/ CollectionRequest /\ UNCHANGED <<idHistVars, ddVars, runVars, nameVars, pairVars, drawVars>>
    \/ CollectionRespond /\ UNCHANGED <<idHistVars, ddVars, runVars, nameVars, pairVars, drawVars>>
    \/ CollectionFinish /\ UNCHANGED <<idHistVars, ddVars, runVars, nameVars, pairVars, drawVars>>

InitStages == NoIds /\ NoDedup /\ StartStages /\ NoRun /\ NoNames /\ NoPair /\ NoDraws /\ NoEnt

SpecStages == InitStages /\ [][NextStages]_vars

SpecRun == InitRun /\ [][NextRun]_vars

NextPair ==
    \/ GenerateOn /\ UNCHANGED <<idVars, ddVars, genVars, runVars, nameVars, drawVars, entVars>>

InitPair == NoIds /\ NoDedup /\ NoGen /\ NoRun /\ NoNames /\ NoPair /\ NoDraws /\ NoEnt

SpecPair == InitPair /\ [][NextPair]_vars

DrawStep(suffix) ==
    Draw(suffix) /\ UNCHANGED <<idHistVars, ddVars, genVars, runVars, nameVars, pairVars, entVars>>

NextDraws ==
    \/ EnterGenerate
          /\ UNCHANGED <<idHistVars, ddVars, genVars, runVars, nameVars, pairVars, entVars>>
    \/ \E suffix \in 1..IdSpace : DrawStep(suffix)

InitDraws == NoIds /\ NoDedup /\ NoGen /\ NoRun /\ NoNames /\ NoPair /\ NoDraws /\ NoEnt

\* uuid4 is fair: a suffix that stays possible is drawn in the end.
SpecDraws ==
    /\ InitDraws
    /\ [][NextDraws]_vars
    /\ \A suffix \in 1..IdSpace : WF_vars(DrawStep(suffix))

\* ------------------------------------------------------------------ claims

\* C1: every identifier an IDGenerator instance returns is distinct from
\* every other identifier it has returned (within one call and across
\* calls), a call with count = n returns exactly n identifiers, and all of
\* them are recorded in used_ids.
C1_AllocationUnique ==
    /\ \A id \in AllIds : issued[id] <= 1
    /\ \A id \in AllIds : issued[id] >= 1 => id \in used_ids
    /\ id_error = "none" => Len(last_ids) = last_count
    /\ \A i \in 1..Len(last_ids) : last_ids[i] \in used_ids
    /\ \A i, j \in 1..Len(last_ids) : i # j => last_ids[i] # last_ids[j]

\* A second call on the instance has returned two identifiers after its while
\* loop rejected a colliding draw, other identifiers being in use already.
C1_Witness ==
    /\ n_calls >= 2
    /\ last_count = 2
    /\ Len(last_ids) = 2
    /\ last_redraws >= 1
    /\ Cardinality(used_ids) >= 3

\* C2: in one run, the ids of the entities in the list a stage returns are
\* pairwise distinct, for every sequence of responses of the generation
\* capability and across all batches.
C2_ReturnedIdsDistinct ==
    pc = "done" =>
        \A i, j \in 1..Len(returned) : i # j => returned[i].id # returned[j].id

\* C3: the list returned by deduplicate_product_names, deduplicate_brand_names
\* or deduplicate_collection_names contains no two entries whose names are
\* equal after lower-casing and trimming.
C3_ReturnedNamesDistinct ==
    (dd_pc = "done" /\ dd_result.raised = "none") =>
        \A i, j \in 1..Len(dd_result.out) :
            i # j => Normalize(dd_result.out[i].name) # Normalize(dd_result.out[j].name)

\* C4: every returned Product's brand_id and collection_id are ids of the
\* run's brands and collections, and every returned Review's product_id is
\* the id of one of the run's products, whatever the responses were.
C4_ReferencesResolve ==
    pc = "done" =>
        /\ cfg.stage = "product" =>
             \A i \in 1..Len(returned) :
                 /\ returned[i].brand_id \in Range(cfg.brand_ids)
                 /\ returned[i].collection_id \in Range(cfg.collection_ids)
        /\ cfg.stage = "review" =>
             \A i \in 1..Len(returned) :
                 \E k \in 1..Len(cfg.products) :
                     returned[i].product_id = cfg.products[k].id

\* C5: no batch gets more than max_retries attempts, and a batch that ended
\* on a response json.loads rejected had all max_retries attempts rejected,
\* returned no entity, added none to what the stage holds, raised nothing
\* and left the generator at the head of its loop, ready for the next batch.
C5_ExhaustedBatchYieldsNothing ==
    cfg.stage # "none" =>
        /\ pc = "await" => attempt < cfg.max_retries
        /\ last_batch.kind = "badjson" =>
             /\ last_batch.status = "exhausted"
             /\ last_batch.failed = cfg.max_retries
             /\ last_batch.out = <<>>
             /\ Held = last_batch.had
             /\ exc = "none"
             /\ pc = "loop"

\* After a batch whose two attempts were both rejected, the request of the
\* next batch is out.
C5_Witness ==
    /\ cfg.max_retries = 2
    /\ exhausted >= 1
    /\ pc = "await"
    /\ call.count >= 1
    /\ exc = "none"

\* C6: a response that is not a list of entity objects (a number, an object,
\* a list holding an element that is no object) never raises out of the
\* stage.
C6_WrongStructureNeverAborts ==
    ~(last_batch.status = "raised" /\ last_batch.where = "payload")

\* C7: a name collision between products, inside one batch or across
\* batches, never raises: both deduplication steps return normally.
C7_CollisionNeverRaises ==
    cfg.stage = "product" => last_batch.where \notin {"dedup", "final_dedup"}

\* C8: every entity made from a parsed payload carries the pre-allocated
\* identifier at the list position of its payload element.
C8_IdForcedByPosition ==
    last_batch.status = "ok" =>
        \A k \in 1..Len(last_batch.out) :
            /\ last_batch.out[k].pos <= Len(last_batch.ids)
            /\ last_batch.out[k].id = last_batch.ids[last_batch.out[k].pos]

\* C9: when a payload of objects holds an element that fails the schema, the
\* attempt succeeds and returns exactly the other elements, in their order.
C9_InvalidElementDroppedAlone ==
    ( /\ last_batch.kind = "list"
      /\ \A i \in 1..Len(last_batch.payload) : last_batch.payload[i].kind = "obj"
      /\ \E i \in 1..Len(last_batch.payload) : ~Passes(last_batch, i) )
    => /\ last_batch.status = "ok"
       /\ \A i \in 1..Len(last_batch.payload) :
            Passes(last_batch, i) <=>
                \E k \in 1..Len(last_batch.out) : last_batch.out[k].pos = i
       /\ \A k, l \in 1..Len(last_batch.out) :
            k < l => last_batch.out[k].pos < last_batch.out[l].pos

\* C10: when the run has no brand or no collection, no product request is
\* made and no placeholder parent identifier reaches the generation
\* capability.
C10_NoParentsNoRequest ==
    (cfg.stage = "product" /\ (cfg.brand_ids = <<>> \/ cfg.collection_ids = <<>>))
    => /\ pc # "await"
       /\ call.brand_id # DefaultBrand
       /\ call.collection_id # DefaultCollection

\* The stages of run() in their order, and the files of the export.
StageOrder == <<"brands", "collections", "products", "reviews", "export">>

EntityFiles == {"brands.csv", "collections.csv", "products.csv", "reviews.csv"}

\* run() was called and has ended, by returning or by an exception.
RunEnded == run_pc \in {"done", "aborted"}

\* C11: a run passes through the stages brands, collections, products,
\* reviews, export in this order: the stages entered so far are always the
\* first stages of the order, each once, and a run that has ended has been
\* through all of them.
C11_StagesInFixedOrder ==
    /\ Len(stage_trace) <= Len(StageOrder)
    /\ \A i \in 1..Len(stage_trace) : stage_trace[i] = StageOrder[i]
    /\ RunEnded => stage_trace = StageOrder

\* C12: a run reaches the export, which writes all four entity files, also
\* when a stage returned no entity: every later stage is still executed.
C12_DegradedRunReachesExport ==
    RunEnded =>
        /\ \E i \in 1..Len(stage_trace) : stage_trace[i] = "export"
        /\ files = EntityFiles

\* C13: when OPENAI_API_KEY is absent the check in main() ends the run
\* before any stage starts: no pipeline is built, the context is not asked
\* for, no generation call is made, no identifier is allocated and no file
\* is written.
C13_NoCredentialNoRun ==
    env.key # "set" =>
        /\ run_pc \in {"start", "returned"}
        /\ ~pipeline
        /\ context_calls = 0
        /\ stage_trace = <<>>
        /\ pc = "idle"
        /\ call = NoCall
        /\ used_ids = {}
        /\ files = {}
        /\ run_exc = "none"

\* main() has returned on an unset credential.
C13_Witness ==
    /\ env.key = "unset"
    /\ run_pc = "returned"
    /\ total_products = 100

\* C14: with the credential and the guide present, run() obtains the brand
\* context exactly once, before the brand stage, and raises nothing on the
\* way to the stages.
C14_ContextObtainedOnce ==
    (env.key = "set" /\ env.guide /\ run_pc # "start") =>
        /\ context_calls = 1
        /\ brand_context = "loaded"
        /\ run_exc = "none"
        /\ run_pc # "aborted"

\* C15: at most one generation call is outstanding at any time, a call is
\* outstanding exactly while the one batch started and not finished is under
\* way, and the first attempt of a batch is out only when every batch
\* started before it has finished.
C15_OneCallOneBatch ==
    /\ inflight.outstanding <= 1
    /\ inflight.started - inflight.finished = inflight.outstanding
    /\ pc = "await" <=> inflight.outstanding = 1
    /\ (pc = "await" /\ attempt = 0) => inflight.finished = inflight.started - 1

\* The first attempt of the second review batch is out after the first batch
\* used up both of its attempts.
C15_Witness ==
    /\ cfg.stage = "review"
    /\ cfg.max_retries = 2
    /\ inflight = [outstanding |-> 1, started |-> 2, finished |-> 1]
    /\ exhausted = 1
    /\ attempt = 0

\* C16: the plan is brandCount = max(2, ceil(n/100)), collectionCount =
\* max(2*brandCount, ceil(n/100)), reviewsPerProduct = max(2, min(5,
\* floor(10000/n))), totalReviews = n*reviewsPerProduct; plan(100) =
\* (2, 4, 5, 500) and plan(10000) = (100, 200, 2, 20000).
C16_PlanFormulas ==
    pipeline =>
        LET n == total_products
        IN  /\ \E c \in {n \div 100, n \div 100 + 1}, f \in 0..10000 :
                 /\ 100 * (c - 1) < n
                 /\ n <= 100 * c
                 /\ f * n <= 10000
                 /\ 10000 < (f + 1) * n
                 /\ plan.brands = (IF c < 2 THEN 2 ELSE c)
                 /\ plan.collections =
                        (IF 2 * plan.brands > c THEN 2 * plan.brands ELSE c)
                 /\ plan.reviews_each = (IF f >= 5 THEN 5 ELSE IF f <= 2 THEN 2 ELSE f)
            /\ plan.reviews = n * plan.reviews_each
            /\ n = 100 =>
                 plan = [brands |-> 2, collections |-> 4, reviews_each |-> 5,
                         reviews |-> 500]
            /\ n = 10000 =>
                 plan = [brands |-> 100, collections |-> 200, reviews_each |-> 2,
                         reviews |-> 20000]

\* run() has computed the plan of 10000 products.
C16_Witness ==
    /\ pipeline
    /\ total_products = 10000
    /\ plan.brands = 100
    /\ plan.reviews = 20000

\* C17: the plan has at least 2 brands, at least 2 collections per brand,
\* between 2 and 5 reviews per product, and at most 100 products per
\* collection.
C17_PlanBounds ==
    pipeline =>
        /\ plan.brands >= 2
        /\ plan.collections >= 2 * plan.brands
        /\ plan.reviews_each >= 2
        /\ plan.reviews_each <= 5
        /\ total_products <= 100 * plan.collections

\* run() has computed a plan whose ceiling is not the quotient: 26 brands and
\* 52 collections for 2501 products, and 3 reviews for each.
C17_Witness ==
    /\ pipeline
    /\ total_products = 2501
    /\ plan.brands = 26
    /\ plan.collections = 52
    /\ plan.reviews_each = 3

\* C18: the names the numbered-suffix fallback produces within one
\* deduplication run are pairwise distinct (two uses for the same base name
\* never get the same counter).
C18_FallbackNamesDistinct ==
    (dd_pc = "done" /\ dd_result.raised = "none") =>
        \A i, j \in 1..Len(dd_result.fallbacks) :
            i # j => dd_result.fallbacks[i] # dd_result.fallbacks[j]

\* Every candidate of the strategies for the entry e, in the fixed order of
\* the strategies and in list order inside a strategy.
CandidatesInOrder(kind, e) ==
    Flatten(CASE kind = "product" ->
                   ProductCandidates(e.name, e.category, e.gender, FirstColor(e.colors))
              [] kind = "brand" -> BrandCandidates(e.name)
              [] kind = "collection" ->
                   CollectionCandidates(e.name, e.season, e.category))

\* The first name of the list that is unique against the used names of v.
RECURSIVE FirstUnique(_, _)
FirstUnique(v, names) ==
    IF names = <<>> THEN [found |-> FALSE, name |-> EmptyStr]
    ELSE IF is_unique(v, Head(names)) THEN [found |-> TRUE, name |-> Head(names)]
    ELSE FirstUnique(v, Tail(names))

\* From position i on, every entry of out carries the name the claim gives
\* it, v holding the names of the entries before it: its own name when that
\* is unique, else the first unique candidate, else the numbered suffix.
RECURSIVE ReplacedAsClaimed(_, _, _, _, _)
ReplacedAsClaimed(kind, input, out, i, v) ==
    IF i > Len(input) THEN TRUE
    ELSE LET e == input[i]
             first == FirstUnique(v, CandidatesInOrder(kind, e))
             expected == IF is_unique(v, e.name) THEN e.name
                         ELSE IF first.found THEN first.name
                         ELSE FallbackName(kind, e.name, v)
         IN  /\ out[i].name = expected
             /\ ReplacedAsClaimed(kind, input, out, i + 1, add_name(v, expected))

\* C19: on a collision the replacement name is the first candidate that is
\* unique against the used names, the strategies taken in their fixed order
\* and the candidates of a strategy in list order; the numbered suffix is
\* used only when no strategy has a unique candidate.
C19_FirstUniqueCandidate ==
    (dd_pc = "done" /\ dd_result.raised = "none") =>
        /\ Len(dd_result.out) = Len(dd_input)
        /\ ReplacedAsClaimed(dd_kind, dd_input, dd_result.out, 1, NewValidator)

\* A product list was deduplicated in which one repeated name got a
\* candidate of a later strategy (the candidates of the first being used)
\* and the next one the numbered suffix.
C19_Witness ==
    /\ dd_pc = "done"
    /\ dd_result.raised = "none"
    /\ dd_kind = "product"
    /\ Len(dd_result.fallbacks) = 1
    /\ \E i \in 1..Len(dd_input) :
         /\ dd_result.out[i].name # dd_input[i].name
         /\ dd_result.out[i].name \notin Range(Prefixed(ProductModifiers, dd_input[i].name))
         /\ dd_result.out[i].name # dd_result.fallbacks[1]

\* C20: is_unique(name) is false exactly when some name handed to add_name
\* equals name after lower-casing and trimming both; so after add_name(n)
\* is_unique(m) is false for every m that normalizes as n does, and it stays
\* false: no call removes a name from the used names.
C20_UniqueIffNotRegistered ==
    /\ \A m \in NameUniverse :
         is_unique(validator, m) <=>
             ~\E n \in registered : Normalize(n) = Normalize(m)
    /\ \A n \in registered : Normalize(n) \in validator.used_names

\* The name was registered in upper case, not as written, and a second name
\* with it; the name as written is not unique, the name with a suffix is.
C20_Witness ==
    /\ BaseName \notin registered
    /\ UpperName \in registered
    /\ OtherName \in registered
    /\ ~is_unique(validator, BaseName)
    /\ is_unique(validator, Suffixed("product", BaseName, 2))
    /\ Len(validator.name_patterns) >= 2

\* C21: in product generation the deduplication runs on the surviving
\* entities of each batch, alone, before they are appended to products, and
\* once more over all of products before the (capped) result is returned.
C21_DedupPerBatchAndFinal ==
    cfg.stage = "product" =>
        /\ last_batch.status = "ok" =>
             LET surviving == ValidateProducts(last_batch.payload, 1, last_batch.ids, <<>>).out
             IN  /\ Len(last_batch.out) = Len(surviving)
                 /\ ReplacedAsClaimed("product", surviving, last_batch.out, 1, NewValidator)
                 /\ Len(products) = last_batch.had + Len(last_batch.out)
                 /\ SubSeq(products, last_batch.had + 1, Len(products)) = last_batch.out
        /\ pc = "done" =>
             /\ Len(returned) = Min(Len(products), cfg.total_count)
             /\ ReplacedAsClaimed("product", SubSeq(products, 1, Len(returned)),
                                  returned, 1, NewValidator)

\* Two batches each returned a product of the same name; the final pass
\* renamed the second.
C21_Witness ==
    /\ cfg.stage = "product"
    /\ pc = "done"
    /\ batch_idx = 2
    /\ Len(returned) = 2
    /\ products[1].name = products[2].name
    /\ returned[1].name = products[1].name
    /\ returned[2].name # products[2].name

\* C23: the number of products generate_products returns is the number of
\* payload elements that passed the schema, summed over the batches whose
\* payload parsed (a batch whose attempts all failed adds none), capped at
\* total_count.
C23_ReturnedCount ==
    (cfg.stage = "product" /\ pc = "done") =>
        Len(returned) = Min(passed, cfg.total_count)

\* More elements passed than total_count: the returned list is capped.
C23_Witness ==
    /\ cfg.stage = "product"
    /\ pc = "done"
    /\ cfg.total_count = 2
    /\ passed = 3
    /\ Len(returned) = 2

\* C26: generate_products runs at most ceil(total_count / batch_size)
\* batches, one after the other, and each batch pre-allocates
\* min(batch_size, remaining) identifiers, remaining being total_count less
\* the products accumulated from the batches before.
C26_BatchCountAndSize ==
    cfg.stage = "product" =>
        /\ (inflight.started - 1) * cfg.batch_size < cfg.total_count
        /\ pc # "aborted" => batch_idx = inflight.finished
        /\ pc = "await" =>
             LET remaining == cfg.total_count - Len(products)
             IN  /\ batch_idx = inflight.started - 1
                 /\ call.count = (IF cfg.batch_size < remaining
                                  THEN cfg.batch_size ELSE remaining)
                 /\ Len(call.ids) = call.count
                 /\ call.count >= 1

\* The second of two batches of one is under way, the first having returned
\* one product: ceil(2 / 1) batches, one identifier each.
C26_Witness ==
    /\ cfg.stage = "product"
    /\ cfg.total_count = 2
    /\ cfg.batch_size = 1
    /\ pc = "await"
    /\ inflight.started = 2
    /\ Len(products) = 1
    /\ Len(call.ids) = 1

\* C24: every identifier handed out for an entity type starts with that
\* type's prefix, so identifiers of different types are never equal, also
\* when they come from instances that share no state.
C24_PrefixPerType ==
    /\ \A h \in handed : h.id.p = h.type
    /\ \A h1, h2 \in handed : h1.type # h2.type => h1.id # h2.id

\* The two instances drew the same suffix for different types.
C24_Witness ==
    \E h1, h2 \in handed :
        /\ h1.gen # h2.gen
        /\ h1.type # h2.type
        /\ h1.id.s = h2.id.s

\* C25: an IDGenerator instance only tests its own used set: a draw is
\* rejected only when the instance itself had handed the identifier out, the
\* other instance's set is neither read nor written, and so both instances
\* can hand out the same identifier.
C25_InstancesIndependent ==
    LET other == 3 - last_alloc.gen
    IN  /\ \A suffix \in last_alloc.rejected :
              MkId(last_alloc.type, suffix) \in
                  last_alloc.before \cup {last_alloc.ids[i] : i \in DOMAIN last_alloc.ids}
        /\ \A gen \in Instances :
              id_generators[gen] = {h.id : h \in {x \in handed : x.gen = gen}}
        /\ \A i \in DOMAIN last_alloc.ids :
              /\ last_alloc.ids[i] \notin last_alloc.before
              /\ last_alloc.ids[i] \in id_generators[last_alloc.gen]

\* Both instances have handed out the same identifier.
C25_Witness ==
    \E h1, h2 \in handed :
        /\ h1.gen = 1
        /\ h2.gen = 2
        /\ h1.id = h2.id
        /\ h1.id \in id_generators[1] \cap id_generators[2]

\* C28: a collision never fails the allocation: the loop draws again, each
\* identifier is found in the end while the prefix has an unused suffix and
\* the draw is fair, and once every suffix of the prefix is used the call
\* never returns.
C28_RedrawUntilUnused ==
    /\ [](id_error = "none")
    /\ \A n \in 0..MaxCount :
          (alloc.pc = "while" /\ Len(alloc.ids) = n /\ Unused(alloc.prefix) # {})
              ~> (alloc.pc = "returned" \/ Len(alloc.ids) > n)
    /\ []((alloc.pc = "while" /\ Unused(alloc.prefix) = {})
              => [](alloc.pc = "while" /\ Unused(alloc.prefix) = {}))

\* A call returned its identifiers after a draw was rejected.
C28_Witness ==
    /\ alloc.pc = "returned"
    /\ alloc.redraws >= 1
    /\ Len(alloc.ids) = alloc.count
    /\ alloc.count >= 1

\* C22: the collections the collection stage returns have pairwise distinct
\* names, compared in lower case with surrounding blanks removed, whatever
\* the responses were.
C22_CollectionNamesDistinct ==
    (cfg.stage = "collection" /\ pc = "done") =>
        \A i, j \in DOMAIN returned :
            i < j => Normalize(returned[i].name) # Normalize(returned[j].name)

\* C27: a product or review batch makes at most max_retries generation
\* calls and none after the first attempt whose payload parsed, also when
\* every element of that payload was dropped; a brand or a collection makes
\* at most 3 calls and none after a success.
C27_CallsPerBatch ==
    /\ [](requests.calls <= (IF cfg.stage \in {"brand", "collection"}
                             THEN 3 ELSE cfg.max_retries))
    /\ [](pc = "await" => ~requests.settled)
    /\ [][requests.settled =>
            \/ requests' = requests
            \/ /\ requests' = [calls |-> 1, settled |-> FALSE]
               /\ inflight'.started = inflight.started + 1]_vars

\* The second attempt of a product batch parsed and every element of its
\* payload was dropped: the batch ended there, after max_retries = 2 calls.
C27_Witness ==
    /\ cfg.stage = "product"
    /\ cfg.max_retries = 2
    /\ requests = [calls |-> 2, settled |-> TRUE]
    /\ last_batch.status = "ok"
    /\ last_batch.payload # <<>>
    /\ last_batch.out = <<>>
    /\ pc = "loop"

\* C29: with brand_ids empty generate_collections makes no generation call
\* and returns the empty list without raising, every requested collection
\* being skipped, although count collection identifiers were allocated.
C29_NoBrandsNoCalls ==
    (cfg.stage = "collection" /\ cfg.brand_ids = <<>>) =>
        /\ inflight.started = 0
        /\ requests.calls = 0
        /\ pc \in {"start", "loop", "done"}
        /\ exc = "none"
        /\ collections = <<>>
        /\ pc = "done" => (returned = <<>> /\ batch_idx = cfg.total_count)
        /\ pc \in {"loop", "done"} =>
             /\ Len(new_ids) = cfg.total_count
             /\ \A i \in DOMAIN new_ids :
                  new_ids[i] \in used_ids /\ new_ids[i].p = "collection"

\* Two collections were asked for with no brand: two identifiers are used
\* and nothing is returned.
C29_Witness ==
    /\ cfg.stage = "collection"
    /\ cfg.brand_ids = <<>>
    /\ cfg.total_count = 2
    /\ pc = "done"
    /\ Cardinality(used_ids) = 2
    /\ batch_idx = 2
    /\ returned = <<>>

\* C30: every review of the output has a rating from 1 to 5 and
\* helpful_votes of at least 0, and when a payload holds an element outside
\* either bound the attempt succeeds and keeps exactly the other elements
\* that pass the schema.
C30_ReviewBoundsDropAlone ==
    cfg.stage = "review" =>
        /\ \A r \in Range(returned) \cup Range(reviews) \cup Range(product_reviews) :
              r.rating \in 1..5 /\ r.helpful_votes >= 0
        /\ ( /\ last_batch.kind = "list"
             /\ \E i \in 1..Len(last_batch.payload) :
                   /\ last_batch.payload[i].kind = "obj"
                   /\ \/ last_batch.payload[i].rating \notin 1..5
                      \/ last_batch.payload[i].helpful_votes < 0 )
           => /\ last_batch.status = "ok"
              /\ \A i \in 1..Len(last_batch.payload) :
                    Passes(last_batch, i) <=>
                        \E k \in 1..Len(last_batch.out) : last_batch.out[k].pos = i

\* C31: the identifiers of a batch are allocated once, before its first
\* attempt: a retry passes the same identifiers and leaves used_ids as it
\* was, used_ids only grows, and it grows only when a batch starts, by that
\* batch's identifiers, none of which was issued before (to a batch that
\* failed or to any other).
C31_AllocatedOncePerBatch ==
    /\ [](pc = "await" =>
            /\ Len(call.ids) = call.count
            /\ Range(call.ids) \subseteq used_ids)
    /\ [](last_batch.status = "exhausted" => Range(last_batch.ids) \subseteq used_ids)
    /\ [][(pc = "await" /\ pc' = "await") =>
            (call' = call /\ used_ids' = used_ids)]_vars
    /\ [][/\ used_ids \subseteq used_ids'
          /\ used_ids' # used_ids =>
                /\ pc # "await"
                /\ pc' = "await"
                /\ Range(call'.ids) = used_ids' \ used_ids
                /\ Cardinality(Range(call'.ids)) = Len(call'.ids)]_vars

\* The retry of the second product batch is under way after the first batch
\* failed: each batch has its own identifier.
C31_Witness ==
    /\ cfg.stage = "product"
    /\ cfg.max_retries = 2
    /\ exhausted = 1
    /\ pc = "await"
    /\ attempt = 1
    /\ Cardinality(used_ids) = 2
    /\ Len(call.ids) = 1

\* C32: a deduplicate_*_names call that returns gives a list of the length
\* and order of its input, changes no field but name, and keeps the name of
\* every entry whose normalized name occurs at no earlier position of the
\* input.
C32_DedupFrame ==
    (dd_pc = "done" /\ dd_result.raised = "none") =>
        /\ Len(dd_result.out) = Len(dd_input)
        /\ \A i \in DOMAIN dd_input :
              /\ [dd_result.out[i] EXCEPT !.name = dd_input[i].name] = dd_input[i]
              /\ (\A j \in 1..(i - 1) :
                     Normalize(dd_input[j].name) # Normalize(dd_input[i].name))
                 => dd_result.out[i].name = dd_input[i].name

\* deduplicate_<kind>_names(list)
Deduplicate(kind, list) ==
    CASE kind = "product" -> deduplicate_product_names(list)
      [] kind = "brand" -> deduplicate_brand_names(list)
      [] kind = "collection" -> deduplicate_collection_names(list)

\* No two entries of the list have the same name.lower().strip().
NamesDistinct(list) ==
    \A i, j \in DOMAIN list : i < j => Normalize(list[i].name) # Normalize(list[j].name)

\* C33: deduplication returns a list of pairwise distinct normalized names
\* as it is; applied to its own output, when that is free of duplicates, it
\* changes nothing; and the final pass of generate_products over the
\* deduplicated output of the batches renames nothing when no two batches
\* share a name (here: a run of one batch).
C33_IdentityOnDistinct ==
    dd_pc = "done" =>
        /\ NamesDistinct(dd_input) =>
              dd_result = [raised |-> "none", out |-> dd_input, fallbacks |-> <<>>]
        /\ (dd_result.raised = "none" /\ NamesDistinct(dd_result.out)) =>
              Deduplicate(dd_kind, dd_result.out).out = dd_result.out
        /\ (dd_result.raised = "none" /\ dd_kind = "product") =>
              Deduplicate("product", dd_result.out).out = dd_result.out

\* C34: generate_products returns at most total_count products, and every
\* batch it starts asks for at least 1 and at most batch_size identifiers.
C34_CountBounds ==
    cfg.stage = "product" =>
        /\ pc = "done" => Len(returned) <= cfg.total_count
        /\ pc = "await" =>
             /\ call.count >= 1
             /\ call.count <= cfg.batch_size
             /\ Len(call.ids) = call.count

\* One product was asked for and the only batch brought two: one is
\* returned.
C34_Witness ==
    /\ cfg.stage = "product"
    /\ cfg.total_count = 1
    /\ pc = "done"
    /\ Len(products) = 2
    /\ Len(returned) = 1

\* sum(batches)
RECURSIVE SumOf(_)
SumOf(seq) == IF seq = <<>> THEN 0 ELSE Head(seq) + SumOf(Tail(seq))

\* The review identifiers generated so far in a run of generate_reviews that
\* is at product prod_idx with `batches` left (the head under way when a
\* request is out): every earlier product had reviews_per_product.
ReviewIdsDue ==
    IF prod_idx > Len(cfg.products) THEN Len(cfg.products) * cfg.reviews_per_product
    ELSE (prod_idx - 1) * cfg.reviews_per_product
         + (cfg.reviews_per_product - SumOf(batches))
         + (IF pc \in {"await", "aborted"} THEN call.count ELSE 0)

\* The identifiers generated for a product total exactly reviews_per_product,
\* in batches of at most batch_size.
ReviewIdsExact ==
    cfg.stage = "review" =>
        /\ Cardinality(used_ids) = ReviewIdsDue
        /\ \A k \in DOMAIN batches : batches[k] \in 1..cfg.batch_size
        /\ SumOf(BatchList(cfg.reviews_per_product, cfg.batch_size)) = cfg.reviews_per_product
        /\ pc = "await" => Len(call.ids) = call.count /\ call.count <= cfg.batch_size

\* C35: for every product, the reviews generated for it number at most
\* reviews_per_product, and the identifiers generated for it total exactly
\* reviews_per_product, in batches of at most batch_size.
C35_ReviewsPerProduct ==
    /\ [](cfg.stage = "review" => Len(product_reviews) <= cfg.reviews_per_product)
    /\ [][(cfg.stage = "review" /\ prod_idx' = prod_idx + 1) =>
             Len(reviews') - Len(reviews) <= cfg.reviews_per_product]_vars
    /\ []ReviewIdsExact

\* The position in brand_ids (from 0) that is congruent to i modulo the
\* number of brands.
RoundRobin(brand_ids, i) ==
    CHOOSE b \in 0..(Len(brand_ids) - 1) : \E q \in 0..i : i = q * Len(brand_ids) + b

\* The collections (by position i) asked for parent brand_id so far.
AskedFor(brand_id) ==
    {requested_for[k].i : k \in {n \in DOMAIN requested_for : requested_for[n].brand_id = brand_id}}

RunCollection(k) == [id |-> MkId("collection", k), brand_id |-> MkId("brand", k)]

\* collections, the argument of generate_products, as far as cfg names it.
RunCollections == {RunCollection(k) : k \in 1..Len(cfg.collection_ids)}

\* C37: for every product batch the brand id and the collection id handed to
\* the request are consistent: the selected collection is one of the run's
\* collections and its brand_id is the selected brand id.
C37_ParentsConsistent ==
    (cfg.stage = "product" /\ pc = "await") =>
        \E c \in RunCollections :
            /\ c.id = call.collection_id
            /\ c.brand_id = call.brand_id

\* brands or collections, the list the stage under way appends to.
Produced == IF cfg.stage = "brand" THEN brands ELSE collections

\* Every entity of the list has a name that is not blank, the identifiers of
\* the list are among ids, and no identifier occurs twice.
NamedOnePerId(list, ids) ==
    /\ \A k \in DOMAIN list :
         /\ Strip(list[k].name) # <<>>
         /\ list[k].id \in Range(ids)
    /\ \A j, k \in DOMAIN list : j < k => list[j].id # list[k].id

\* C38: every Brand and Collection of the output has a name that is not
\* empty after trimming; a response whose name is missing or blank is a
\* failed attempt (no entity, the next attempt for the same identifier, or
\* the identifier given up after max_attempts); at most one entity is output
\* per pre-generated identifier.
C38_NamedEntities ==
    /\ [](cfg.stage \in {"brand", "collection"} =>
            /\ NamedOnePerId(Produced, SubSeq(new_ids, 1, batch_idx))
            /\ pc = "done" => NamedOnePerId(returned, new_ids))
    /\ [][(cfg.stage \in {"brand", "collection"} /\ blank_names' = blank_names + 1) =>
            /\ brands' = brands
            /\ collections' = collections
            /\ exc' = exc
            /\ IF MoreAttempts(attempt)
               THEN pc' = "await" /\ attempt' = attempt + 1 /\ call' = call
                    /\ batch_idx' = batch_idx
               ELSE pc' = "loop" /\ exhausted' = exhausted + 1
                    /\ batch_idx' = batch_idx + 1]_vars

\* The only brand asked for was answered with a blank name once and then
\* produced by the second request.
C38_Witness ==
    /\ cfg.stage = "brand"
    /\ cfg.total_count = 1
    /\ pc = "done"
    /\ blank_names = 1
    /\ requests.calls = 2
    /\ Len(returned) = 1
    /\ returned[1].id = new_ids[1]

\* C39: for every total_products >= 1 the planned collection count is
\* exactly 2 * brand_count: the term ceil(total_products / 100) never exceeds
\* the minimum of two collections per brand.
C39_CollectionsTwicePerBrand ==
    plan # NoPlan =>
        /\ total_products >= 1
        /\ plan.collections = 2 * plan.brands
        /\ max_collections(total_products) <= min_collections(total_products)
        /\ max_collections(total_products) * 100 >= total_products
        /\ (max_collections(total_products) - 1) * 100 < total_products

\* A plan for more than 200 products: three brands or more, where the
\* ceiling term is above 2.
C39_Witness ==
    /\ plan # NoPlan
    /\ total_products = 250
    /\ max_collections(total_products) = 3
    /\ plan.brands = 3
    /\ plan.collections = 6

====
